---- MODULE Spec2Model ----
(***************************************************************************)
(* Model of the Jira MCP server (srcgrp/jira-basic-mcp).                   *)
(*                                                                         *)
(* The repository holds two builds of the same server:                     *)
(*   "index"  : the class JiraMcpServer          (src/unnamed/part_000)    *)
(*   "server" : the module server.ts with start() (src/unnamed/part_001)   *)
(* Both are modelled; `variant` says which one a behaviour runs.           *)
(*                                                                         *)
(* A JavaScript string is a sequence of one-character strings, so that     *)
(* toLowerCase, parseInt and the \d pattern are computed character by      *)
(* character.  A JavaScript value is a record [t, s, n, half, a].          *)
(***************************************************************************)
EXTENDS Integers, Sequences, FiniteSets, TLC

VARIABLES
    variant,  \* which build runs: "index" or "server"
    env,      \* the settings of the process environment that are set
    phase,    \* "starting", "running" (transport connected) or "exited"
    inv,      \* per request slot: the call_tool invocation in progress
    deleted,  \* the Jira site: the keys of the issues deleted so far
    listed,   \* the list_tools request being handled: its response, once made
    validatorErrors  \* per tool: the errors field of its compiled validator

vars == <<variant, env, phase, inv, deleted, listed, validatorErrors>>

(***************************************************************************)
(* Bounds of the model.                                                    *)
(***************************************************************************)
\* longest list a remote read returns (issue types, priorities, components,
\* transitions, users)
MaxListLen == 2

(***************************************************************************)
(* JavaScript values.                                                      *)
(***************************************************************************)
Undefined == [t |-> "undefined", s |-> <<>>, n |-> 0, half |-> FALSE, a |-> <<>>]
Str(chars) == [t |-> "string", s |-> chars, n |-> 0, half |-> FALSE, a |-> <<>>]
Num(k) == [t |-> "number", s |-> <<>>, n |-> k, half |-> FALSE, a |-> <<>>]
\* the number k + 0.5
Frac(k) == [t |-> "number", s |-> <<>>, n |-> k, half |-> TRUE, a |-> <<>>]
Arr(items) == [t |-> "array", s |-> <<>>, n |-> 0, half |-> FALSE, a |-> items]

\* JavaScript truthiness, as the handlers' `if (x)` tests use it
Truthy(v) ==
    CASE v.t = "undefined" -> FALSE
      [] v.t = "string" -> v.s # <<>>
      [] v.t = "number" -> v.n # 0 \/ v.half
      [] OTHER -> TRUE

\* args.f of an argument object: undefined when the property is missing
Get(args, f) == IF f \in DOMAIN args THEN args[f] ELSE Undefined

UpperChars == <<"A", "B", "D", "E", "H", "I", "K", "L", "N", "O", "T", "X">>
LowerChars == <<"a", "b", "d", "e", "h", "i", "k", "l", "n", "o", "t", "x">>

LowerChar(c) ==
    IF \E k \in DOMAIN UpperChars : UpperChars[k] = c
    THEN LowerChars[CHOOSE k \in DOMAIN UpperChars : UpperChars[k] = c]
    ELSE c

\* String.prototype.toLowerCase
ToLowerCase(chars) == [k \in DOMAIN chars |-> LowerChar(chars[k])]

\* v?.toLowerCase() of a value that is a string or undefined
LowerOf(v) == IF v.t = "string" THEN Str(ToLowerCase(v.s)) ELSE Undefined

Digits == <<"0", "1", "2", "3", "4", "5", "6", "7", "8", "9">>

IsDigit(c) == \E k \in DOMAIN Digits : Digits[k] = c

DigitVal(c) == (CHOOSE k \in DOMAIN Digits : Digits[k] = c) - 1

\* the pattern ^\d+$ of the rapidView schema
MatchesDigits(chars) == chars # <<>> /\ \A k \in DOMAIN chars : IsDigit(chars[k])

RECURSIVE ParseDigits(_, _)
ParseDigits(chars, acc) ==
    IF chars = <<>> \/ ~IsDigit(Head(chars)) THEN acc
    ELSE ParseDigits(Tail(chars), 10 * acc + DigitVal(Head(chars)))

\* parseInt(s, 10) of an unsigned string: NaN (here undefined) without a
\* leading digit
ParseInt(chars) ==
    IF chars = <<>> \/ ~IsDigit(Head(chars)) THEN Undefined
    ELSE Num(ParseDigits(chars, 0))

\* Number.isInteger(v)
IsInteger(v) == v.t = "number" /\ ~v.half

\* the text of a JavaScript string, for messages and query strings
RECURSIVE Text(_)
Text(chars) == IF chars = <<>> THEN "" ELSE Head(chars) \o Text(Tail(chars))

\* `${v}` of a string or number value
Show(v) ==
    CASE v.t = "string" -> Text(v.s)
      [] v.t = "number" -> ToString(v.n) \o (IF v.half THEN ".5" ELSE "")
      [] OTHER -> "undefined"

\* JSON.stringify(result, null, 2): the serialisation wraps the value, it is
\* not the value
JsonStringify(result) == [json |-> result, indent |-> 2]

(***************************************************************************)
(* Input schemas and the compiled validators (Ajv).                        *)
(***************************************************************************)
NoSchema ==
    [type |-> "", enum |-> {}, pattern |-> "", hasMinimum |-> FALSE,
     minimum |-> 0, items |-> "", oneOf |-> <<>>]

StringSchema == [NoSchema EXCEPT !.type = "string"]

StringArraySchema == [NoSchema EXCEPT !.type = "array", !.items = "string"]

\* get_assigned_issues.status: enum ["current", "past", "all"]
AssignmentStatusSchema ==
    [StringSchema EXCEPT !.enum = {<<"c", "u", "r", "r", "e", "n", "t">>,
                                   <<"p", "a", "s", "t">>,
                                   <<"a", "l", "l">>}]

\* get_issues.rapidView: oneOf a number >= 1, a string of digits
RapidViewSchema ==
    [NoSchema EXCEPT !.oneOf =
        << [NoSchema EXCEPT !.type = "number", !.hasMinimum = TRUE, !.minimum = 1],
           [NoSchema EXCEPT !.type = "string", !.pattern = "^\\d+$"] >>]

Prop(name, schema) == [name |-> name, schema |-> schema]

\* an object schema: properties in declaration order, required, anyOf (each
\* branch a list of required properties), minProperties, and whether
\* properties outside `properties` are allowed
ObjectSchema(props, req, alts, minProps, additional) ==
    [properties |-> props, required |-> req, anyOf |-> alts,
     minProperties |-> minProps, additionalProperties |-> additional]

IssueKeyProps == << Prop("issueKey", StringSchema) >>

GetIssuesProps ==
    << Prop("projectKey", StringSchema), Prop("rapidView", RapidViewSchema),
       Prop("jql", StringSchema) >>

GetAssignedIssuesProps ==
    << Prop("accountId", StringSchema), Prop("status", AssignmentStatusSchema),
       Prop("additionalJql", StringSchema) >>

UpdateIssueProps ==
    << Prop("issueKey", StringSchema), Prop("summary", StringSchema),
       Prop("description", StringSchema), Prop("assignee", StringSchema),
       Prop("status", StringSchema), Prop("priority", StringSchema) >>

CreateIssueProps ==
    << Prop("projectKey", StringSchema), Prop("summary", StringSchema),
       Prop("issueType", StringSchema), Prop("description", StringSchema),
       Prop("assignee", StringSchema), Prop("labels", StringArraySchema),
       Prop("components", StringArraySchema), Prop("priority", StringSchema) >>

CreateIssueLinkProps ==
    << Prop("inwardIssueKey", StringSchema), Prop("outwardIssueKey", StringSchema),
       Prop("linkType", StringSchema) >>

Tool(name, schema) == [name |-> name, inputSchema |-> schema]

\* the tools array of the class build: no additionalProperties keyword, and
\* get_issues requires projectKey or rapidView through anyOf
toolsIndex ==
    << Tool("delete_issue", ObjectSchema(IssueKeyProps, <<"issueKey">>, <<>>, 0, TRUE)),
       Tool("get_issues",
            ObjectSchema(GetIssuesProps, <<>>, << <<"projectKey">>, <<"rapidView">> >>, 0, TRUE)),
       Tool("update_issue", ObjectSchema(UpdateIssueProps, <<"issueKey">>, <<>>, 2, TRUE)),
       Tool("list_fields", ObjectSchema(<<>>, <<>>, <<>>, 0, TRUE)),
       Tool("list_issue_types", ObjectSchema(<<>>, <<>>, <<>>, 0, TRUE)),
       Tool("list_link_types", ObjectSchema(<<>>, <<>>, <<>>, 0, TRUE)),
       Tool("get_user", ObjectSchema(<< Prop("email", StringSchema) >>, <<"email">>, <<>>, 0, TRUE)),
       Tool("create_issue",
            ObjectSchema(CreateIssueProps, <<"projectKey", "summary", "issueType">>, <<>>, 0, TRUE)),
       Tool("create_issue_link",
            ObjectSchema(CreateIssueLinkProps,
                         <<"inwardIssueKey", "outwardIssueKey", "linkType">>, <<>>, 0, TRUE)) >>

\* the tools array of server.ts: additionalProperties false everywhere, no
\* anyOf on get_issues, and two more tools
toolsServer ==
    << Tool("delete_issue", ObjectSchema(IssueKeyProps, <<"issueKey">>, <<>>, 0, FALSE)),
       Tool("get_issues", ObjectSchema(GetIssuesProps, <<>>, <<>>, 0, FALSE)),
       Tool("get_assigned_issues",
            ObjectSchema(GetAssignedIssuesProps, <<"accountId">>, <<>>, 0, FALSE)),
       Tool("update_issue", ObjectSchema(UpdateIssueProps, <<"issueKey">>, <<>>, 2, FALSE)),
       Tool("list_fields", ObjectSchema(<<>>, <<>>, <<>>, 0, FALSE)),
       Tool("list_issue_types", ObjectSchema(<<>>, <<>>, <<>>, 0, FALSE)),
       Tool("list_link_types", ObjectSchema(<<>>, <<>>, <<>>, 0, FALSE)),
       Tool("get_user", ObjectSchema(<< Prop("email", StringSchema) >>, <<"email">>, <<>>, 0, FALSE)),
       Tool("create_issue",
            ObjectSchema(CreateIssueProps, <<"projectKey", "summary", "issueType">>, <<>>, 0, FALSE)),
       Tool("create_issue_link",
            ObjectSchema(CreateIssueLinkProps,
                         <<"inwardIssueKey", "outwardIssueKey", "linkType">>, <<>>, 0, FALSE)),
       Tool("get_issue", ObjectSchema(IssueKeyProps, <<"issueKey">>, <<>>, 0, FALSE)) >>

tools(v) == IF v = "index" THEN toolsIndex ELSE toolsServer

ToolNames(v) == {tools(v)[k].name : k \in DOMAIN tools(v)}

\* tools.find(t => t.name === name), for a registered name
FindTool(v, name) ==
    tools(v)[CHOOSE k \in DOMAIN tools(v) :
                /\ tools(v)[k].name = name
                /\ \A j \in 1..(k - 1) : tools(v)[j].name # name]

\* a schema without oneOf against a value: type, then the keywords of the
\* value's own type
ValidSimple(schema, v) ==
    /\ schema.type # "" => v.t = schema.type
    /\ (schema.enum # {}) => (v.t = "string" /\ v.s \in schema.enum)
    /\ (schema.hasMinimum /\ v.t = "number") => v.n >= schema.minimum
    /\ (schema.pattern # "" /\ v.t = "string") => MatchesDigits(v.s)
    /\ (schema.items # "" /\ v.t = "array") =>
            \A k \in DOMAIN v.a : v.a[k].t = schema.items

ValidValue(schema, v) ==
    /\ ValidSimple(schema, v)
    /\ schema.oneOf # <<>> =>
            Cardinality({k \in DOMAIN schema.oneOf : ValidSimple(schema.oneOf[k], v)}) = 1

ValidationError(path, keyword, message) ==
    [instancePath |-> path, keyword |-> keyword, message |-> message]

RequiredError(f) ==
    ValidationError("", "required", "must have required property '" \o f \o "'")

PropNames(schema) == {schema.properties[k].name : k \in DOMAIN schema.properties}

\* the error a property value produces
PropError(p) ==
    ValidationError("/" \o p.name,
                    IF p.schema.oneOf # <<>> THEN "oneOf" ELSE "type",
                    IF p.schema.oneOf # <<>> THEN "must match exactly one schema in oneOf"
                    ELSE "must be valid " \o p.schema.type)

\* validator(args) with Ajv's defaults (allErrors off): the errors of the first
\* failing keyword, <<>> when args is valid.  hasArgs is FALSE when the request
\* carries no arguments object (args is then undefined).
ValidatorErrors(schema, hasArgs, args) ==
    LET missing(req) == {k \in DOMAIN req : req[k] \notin DOMAIN args}
        extra == DOMAIN args \ PropNames(schema)
        bad == {k \in DOMAIN schema.properties :
                    /\ schema.properties[k].name \in DOMAIN args
                    /\ ~ValidValue(schema.properties[k].schema,
                                   args[schema.properties[k].name])}
        Min(S) == CHOOSE k \in S : \A j \in S : k <= j
    IN  CASE ~hasArgs -> << ValidationError("", "type", "must be object") >>
          [] schema.anyOf # <<>> /\ \A b \in DOMAIN schema.anyOf : missing(schema.anyOf[b]) # {} ->
                [b \in DOMAIN schema.anyOf |->
                    RequiredError(schema.anyOf[b][Min(missing(schema.anyOf[b]))])]
                \o << ValidationError("", "anyOf", "must match a schema in anyOf") >>
          [] Cardinality(DOMAIN args) < schema.minProperties ->
                << ValidationError("", "minProperties",
                                   "must NOT have fewer than "
                                   \o ToString(schema.minProperties) \o " properties") >>
          [] missing(schema.required) # {} ->
                << RequiredError(schema.required[Min(missing(schema.required))]) >>
          [] ~schema.additionalProperties /\ extra # {} ->
                << ValidationError("", "additionalProperties",
                                   "must NOT have additional properties") >>
          [] bad # {} -> << PropError(schema.properties[Min(bad)]) >>
          [] OTHER -> <<>>

RECURSIVE JoinErrors(_)
JoinErrors(errors) ==
    IF errors = <<>> THEN ""
    ELSE "data" \o Head(errors).instancePath \o " " \o Head(errors).message
         \o (IF Tail(errors) = <<>> THEN "" ELSE ", " \o JoinErrors(Tail(errors)))

\* ajv.errorsText(validator.errors)
errorsText(errors) == IF errors = <<>> THEN "No errors" ELSE JoinErrors(errors)

(***************************************************************************)
(* Errors and results.                                                     *)
(***************************************************************************)
\* new McpError(code, message, data); data is <<>> when not given
McpError(code, message, data) ==
    [class |-> "McpError", code |-> code, message |-> message, data |-> data]

\* an error thrown by the Jira client; status 0 and message "" stand for a
\* missing property, errorMessages <<>> for a missing or empty list
UpstreamError(status, errorMessages, message) ==
    [class |-> "Error", status |-> status, errorMessages |-> errorMessages,
     message |-> message]

\* error?.status
StatusOf(error) == IF "status" \in DOMAIN error THEN error.status ELSE 0

RECURSIVE Join(_, _)
\* Array.prototype.join
Join(strings, sep) ==
    IF strings = <<>> THEN ""
    ELSE Head(strings) \o (IF Tail(strings) = <<>> THEN "" ELSE sep \o Join(Tail(strings), sep))

\* error?.errorMessages?.join(", ") || error?.message || "An unknown error occurred"
ErrorMessageOf(error) ==
    LET joined == IF "errorMessages" \in DOMAIN error THEN Join(error.errorMessages, ", ") ELSE ""
    IN  IF joined # "" THEN joined
        ELSE IF error.message # "" THEN error.message
        ELSE "An unknown error occurred"

\* error?.status || 500
StatusCodeOf(error) == IF StatusOf(error) # 0 THEN StatusOf(error) ELSE 500

\* a catch block without the branch for status 404
McpErrorCodeWithout404(statusCode) ==
    CASE statusCode = 400 -> "InvalidParams"
      [] statusCode = 401 \/ statusCode = 403 -> "InvalidRequest"
      [] OTHER -> "InternalError"

\* the catch block's choice of the MCP error code
McpErrorCodeFor(statusCode) ==
    CASE statusCode = 400 -> "InvalidParams"
      [] statusCode = 401 \/ statusCode = 403 -> "InvalidRequest"
      [] statusCode = 404 -> "InvalidRequest"
      [] OTHER -> "InternalError"

\* a catch block that lets an McpError through as it was thrown
CaughtErrorKeepingMcpError(error) ==
    IF error.class = "McpError" THEN error
    ELSE McpError(McpErrorCodeFor(StatusCodeOf(error)),
                  "Jira API Error (" \o ToString(StatusCodeOf(error)) \o "): "
                     \o ErrorMessageOf(error),
                  [originalError |-> error])

\* the McpError the dispatcher's catch block throws for a caught error
CaughtError(error) ==
    McpError(McpErrorCodeFor(StatusCodeOf(error)),
             "Jira API Error (" \o ToString(StatusCodeOf(error)) \o "): "
                \o ErrorMessageOf(error),
             [originalError |-> error])

NoOutcome == [kind |-> "none"]

\* the success envelope: { content: [{ type: "text", text: JSON.stringify(result, null, 2) }] }
ToolResult(result) ==
    [content |-> << [type |-> "text", text |-> JsonStringify(result)] >>]

Returned(value) == [kind |-> "return", value |-> value]

Thrown(error) == [kind |-> "throw", error |-> error]

(***************************************************************************)
(* One call_tool invocation.                                               *)
(***************************************************************************)
Slots == {1, 2}

\* the value of the latest `await`: the call, whether it resolved, and the
\* answer or the error
Settled(op, ok, v) == [op |-> op, ok |-> ok, v |-> v]

NoAwait == Settled("", TRUE, <<>>)

\* a free request slot
Idle ==
    [pc |-> "idle", awaiting |-> FALSE, name |-> "", hasArgs |-> FALSE,
     args |-> <<>>, loc |-> <<>>, trace |-> <<>>, last |-> NoAwait,
     result |-> Undefined, outcome |-> NoOutcome]

\* a local variable of the handler; undefined until assigned
Loc(r, k) == IF k \in DOMAIN r.loc THEN r.loc[k] ELSE Undefined

SetLoc(r, k, v) == [r EXCEPT !.loc = (k :> v) @@ r.loc]

\* the handler is about to issue the remote call of site pc
At(r, pc) == [r EXCEPT !.pc = pc, !.awaiting = FALSE]

\* the request handler returns `value` to the SDK
Finish(r, value) ==
    [r EXCEPT !.pc = "done", !.awaiting = FALSE, !.outcome = Returned(value)]

\* `result = ...; break`, then the return of the success envelope
ReturnResult(r, result) ==
    [Finish(r, ToolResult(result)) EXCEPT !.result = result]

\* an error thrown before the try block leaves the handler as it is
Throw(r, error) ==
    [r EXCEPT !.pc = "done", !.awaiting = FALSE, !.outcome = Thrown(error)]

\* an error thrown inside the try block is caught, classified and re-thrown
Catch(r, error) == Throw(r, CaughtError(error))

Event(op, ev, arg) == [op |-> op, ev |-> ev, arg |-> arg]

Log(r, op, ev, arg) == [r EXCEPT !.trace = Append(@, Event(op, ev, arg))]

(***************************************************************************)
(* The requests a client sends: tool names and argument objects.           *)
(***************************************************************************)
RECURSIVE ObjectsOf(_)
\* every object that has, for some of the listed properties, one of the
\* values listed for it
ObjectsOf(cands) ==
    IF cands = <<>> THEN {<<>>}
    ELSE LET rest == ObjectsOf(Tail(cands))
         IN  rest \cup {(Head(cands)[1] :> v) @@ o : v \in Head(cands)[2], o \in rest}

IssueKeyValues == {Str(<<"K", "-", "1">>), Num(5)}

GetIssuesArgs ==
    ObjectsOf(<< <<"projectKey", {Str(<<"P">>), Str(<<>>)}>>,
                 <<"rapidView", {Num(1), Num(0), Frac(1), Str(<<"7">>), Str(<<"0">>),
                                 Str(<<"x">>)}>>,
                 <<"jql", {Str(<<"J">>), Str(<<>>)}>> >>)

GetAssignedIssuesArgs ==
    ObjectsOf(<< <<"accountId", {Str(<<"u">>)}>>,
                 <<"status", {Str(<<"c", "u", "r", "r", "e", "n", "t">>),
                              Str(<<"p", "a", "s", "t">>), Str(<<"a", "l", "l">>),
                              Str(<<"o", "l", "d">>)}>>,
                 <<"additionalJql", {Str(<<"J">>), Str(<<>>)}>> >>)

UpdateIssueArgs ==
    ObjectsOf(<< <<"issueKey", {Str(<<"K", "-", "1">>)}>>,
                 <<"summary", {Str(<<"s">>), Str(<<>>)}>>,
                 <<"description", {Str(<<"d">>)}>>,
                 <<"assignee", {Str(<<"a">>), Str(<<>>), Str(<<"n", "u", "l", "l">>)}>>,
                 <<"status", {Str(<<"d", "O", "N", "E">>), Str(<<"X">>)}>>,
                 <<"priority", {Str(<<"h", "I">>), Str(<<"X">>)}>> >>)
    \cup ObjectsOf(<< <<"issueKey", {Str(<<"K", "-", "1">>)}>>,
                      <<"verbose", {Str(<<"x">>)}>> >>)

CreateIssueArgs ==
    ObjectsOf(<< <<"projectKey", {Str(<<"P">>)}>>,
                 <<"summary", {Str(<<"s">>)}>>,
                 <<"issueType", {Str(<<"t", "K">>), Str(<<"E">>)}>>,
                 <<"description", {Str(<<"d">>), Str(<<>>)}>>,
                 <<"assignee", {Str(<<"a">>)}>>,
                 <<"labels", {Arr(<< Str(<<"l">>) >>)}>>,
                 <<"components", {Arr(<<>>),
                                  Arr(<< Str(<<"b">>), Str(<<"X">>), Str(<<"A">>) >>)}>>,
                 <<"priority", {Str(<<"h", "I">>), Str(<<"X">>), Str(<<>>)}>> >>)

CreateIssueLinkArgs ==
    ObjectsOf(<< <<"inwardIssueKey", {Str(<<"K", "-", "1">>)}>>,
                 <<"outwardIssueKey", {Str(<<"K", "-", "2">>)}>>,
                 <<"linkType", {Str(<<"B">>)}>> >>)

\* the argument objects tried for a tool name; an unknown name gets those of
\* delete_issue
ArgObjects(name) ==
    CASE name = "get_issues" -> GetIssuesArgs
      [] name = "get_assigned_issues" -> GetAssignedIssuesArgs
      [] name = "update_issue" -> UpdateIssueArgs
      [] name = "create_issue" -> CreateIssueArgs
      [] name = "create_issue_link" -> CreateIssueLinkArgs
      [] name = "get_user" -> ObjectsOf(<< <<"email", {Str(<<"a", "@", "X">>), Num(5)}>> >>)
      [] name \in {"list_fields", "list_issue_types", "list_link_types"} ->
            ObjectsOf(<< <<"verbose", {Str(<<"x">>)}>> >>)
      [] OTHER -> ObjectsOf(<< <<"issueKey", IssueKeyValues>>,
                               <<"verbose", {Str(<<"x">>)}>> >>)

RequestNames == ToolNames("index") \cup ToolNames("server") \cup {"no_such_tool"}

(***************************************************************************)
(* The Jira service: what each remote call may answer.                     *)
(***************************************************************************)
\* the lists of at most n entries of S; a list of the site names an entry once
SeqsUpTo(S, n) ==
    {s \in UNION {[1..k -> S] : k \in 0..n} :
        \A a \in DOMAIN s, b \in DOMAIN s : a # b => s[a] # s[b]}

UpstreamErrors ==
    {UpstreamError(st, <<>>, "Request failed") : st \in {0, 400, 401, 403, 404, 500}}
    \cup {UpstreamError(400, <<"Field error", "Other error">>, "Bad Request"),
          UpstreamError(0, <<>>, "")}

Named(id, name) == [id |-> id, name |-> name]

IssueTypeRecords ==
    {Named(Str(<<"1">>), Str(<<"T", "k">>)), Named(Undefined, Str(<<"T", "K">>)),
     Named(Str(<<"2">>), Undefined)}

PriorityRecords ==
    {Named(Str(<<"3">>), Str(<<"H", "i">>)), Named(Undefined, Str(<<"H", "I">>)),
     Named(Str(<<"4">>), Str(<<"L", "o">>))}

ComponentRecords ==
    {Named(Str(<<"1">>), Str(<<"a">>)), Named(Str(<<"2">>), Str(<<"B">>)),
     Named(Undefined, Str(<<"A">>))}

\* a transition: its id and the name of its destination status (t.to?.name)
TransitionRecords ==
    {[id |-> Str(<<"1", "1">>), toName |-> Str(<<"D", "o", "n", "e">>)],
     [id |-> Undefined, toName |-> Str(<<"D", "O", "N", "E">>)],
     [id |-> Str(<<"1", "2">>), toName |-> Undefined]}

UserRecords ==
    {[accountId |-> Str(<<"u">>), emailAddress |-> Str(<<"A", "@", "x">>)],
     [accountId |-> Str(<<"v">>), emailAddress |-> Str(<<"b", "@", "x">>)],
     [accountId |-> Str(<<"w">>), emailAddress |-> Undefined]}

\* the site a pending remote call was issued from, by the client method called
OpOf(pc) ==
    CASE pc \in {"searchIssues", "searchAssigned"} -> "searchForIssuesUsingJql"
      [] pc \in {"updGetPriorities", "getPriorities"} -> "getPriorities"
      [] pc \in {"listIssueTypes", "getIssueAllTypes"} -> "getIssueAllTypes"
      [] pc \in {"updGetIssue", "getIssue"} -> "getIssue"
      [] OTHER -> pc

\* the answers of the remote call issued at site pc that are not failures
Answers(pc) ==
    CASE OpOf(pc) \in {"deleteIssue", "editIssue", "doTransition", "linkIssues"} ->
            {Undefined}
      [] OpOf(pc) = "searchForIssuesUsingJql" -> {[total |-> 1, issues |-> <<"K-1">>]}
      [] OpOf(pc) = "getBoard" -> {[id |-> 1, name |-> "Board"]}
      [] OpOf(pc) = "getConfiguration" ->
            {[filter |-> [id |-> Str(<<"9">>)]], [filter |-> [id |-> Undefined]],
             [name |-> "Board"]}
      [] OpOf(pc) = "getFilter" ->
            {[jql |-> Str(<<"F">>)], [jql |-> Str(<<>>)], [jql |-> Undefined]}
      [] OpOf(pc) = "getPriorities" -> SeqsUpTo(PriorityRecords, MaxListLen)
      [] OpOf(pc) = "getTransitions" ->
            {[transitions |-> ts] : ts \in SeqsUpTo(TransitionRecords, MaxListLen)}
            \cup {[expand |-> "transitions"]}
      [] OpOf(pc) = "getIssue" -> {[key |-> "K-1", fields |-> "current"]}
      [] OpOf(pc) = "getFields" -> {<<"summary", "status">>}
      [] OpOf(pc) = "getIssueAllTypes" -> SeqsUpTo(IssueTypeRecords, MaxListLen)
      [] OpOf(pc) = "getIssueLinkTypes" -> {<<"Blocks">>}
      [] OpOf(pc) = "findUsers" -> SeqsUpTo(UserRecords, MaxListLen)
      [] OpOf(pc) = "getProject" -> {[id |-> Str(<<"1", "0">>)], [id |-> Undefined]}
      [] OpOf(pc) = "getProjectComponents" -> SeqsUpTo(ComponentRecords, MaxListLen)
      [] OpOf(pc) = "createIssue" -> {[id |-> "123", key |-> "P-123"]}
      [] OTHER -> {}

\* list.find(x => x[key]?.toLowerCase() === wanted.toLowerCase())?.id: the id
\* of the first entry that matches, undefined without a match
FindIdByName(list, key, wanted) ==
    LET hits == {k \in DOMAIN list : LowerOf(list[k][key]) = LowerOf(wanted)}
    IN  IF hits = {} THEN Undefined
        ELSE list[CHOOSE k \in hits : \A j \in hits : k <= j].id

(***************************************************************************)
(* The handlers: the code between two remote calls.                        *)
(***************************************************************************)
\* a handler that looks at projectKey before rapidView
GetIssuesStartProjectFirst(r) ==
    LET rapidView == Get(r.args, "rapidView")
        projectKey == Get(r.args, "projectKey")
        jql == Get(r.args, "jql")
        boardId == IF rapidView.t = "string" THEN ParseInt(rapidView.s) ELSE rapidView
    IN  IF Truthy(projectKey)
        THEN At(SetLoc(r, "jql",
                       IF Truthy(jql)
                       THEN "project = \"" \o Text(projectKey.s) \o "\" AND " \o Text(jql.s)
                       ELSE "project = \"" \o Text(projectKey.s) \o "\""),
                "searchIssues")
        ELSE IF Truthy(rapidView)
        THEN IF ~IsInteger(boardId) \/ boardId.n <= 0
             THEN Catch(r, McpError("InvalidParams",
                                    "Invalid rapidView ID: " \o Show(rapidView)
                                        \o ". Must be a positive integer.", <<>>))
             ELSE At(SetLoc(r, "boardId", boardId), "getBoard")
        ELSE Catch(r, McpError("InvalidParams",
                               "Either projectKey or rapidView must be provided", <<>>))

\* case "get_issues", up to its first remote call
GetIssuesStart(r) ==
    LET rapidView == Get(r.args, "rapidView")
        projectKey == Get(r.args, "projectKey")
        jql == Get(r.args, "jql")
        boardId == IF rapidView.t = "string" THEN ParseInt(rapidView.s) ELSE rapidView
    IN  IF Truthy(rapidView)
        THEN IF ~IsInteger(boardId) \/ boardId.n <= 0
             THEN Catch(r, McpError("InvalidParams",
                                    "Invalid rapidView ID: " \o Show(rapidView)
                                        \o ". Must be a positive integer.", <<>>))
             ELSE At(SetLoc(r, "boardId", boardId), "getBoard")
        ELSE IF Truthy(projectKey)
        THEN At(SetLoc(r, "jql",
                       IF Truthy(jql)
                       THEN "project = \"" \o Text(projectKey.s) \o "\" AND " \o Text(jql.s)
                       ELSE "project = \"" \o Text(projectKey.s) \o "\""),
                "searchIssues")
        ELSE Catch(r, McpError("InvalidParams",
                               "Either projectKey or rapidView must be provided", <<>>))

\* config.filter?.id
FilterIdOf(config) == IF "filter" \in DOMAIN config THEN config.filter.id ELSE Undefined

\* Number(v) of a string of digits or a number
ToNumber(v) == IF v.t = "string" THEN ParseInt(v.s) ELSE v

\* a handler that takes status "all" for the default
GetAssignedIssuesStartWithoutAll(r) ==
    LET accountId == Text(Get(r.args, "accountId").s)
        additionalJql == Get(r.args, "additionalJql")
        baseJql == IF Get(r.args, "status") = Str(<<"p", "a", "s", "t">>)
                   THEN "assignee WAS \"" \o accountId \o "\""
                   ELSE "assignee = \"" \o accountId \o "\""
    IN  At(SetLoc(r, "jql",
                  IF Truthy(additionalJql)
                  THEN baseJql \o " AND (" \o Text(additionalJql.s) \o ")"
                  ELSE baseJql),
           "searchAssigned")

\* case "get_assigned_issues", up to its remote call
GetAssignedIssuesStart(r) ==
    LET accountId == Text(Get(r.args, "accountId").s)
        status == Get(r.args, "status")
        additionalJql == Get(r.args, "additionalJql")
        baseJql ==
            CASE status = Str(<<"p", "a", "s", "t">>) ->
                    "assignee WAS \"" \o accountId \o "\""
              [] status = Str(<<"a", "l", "l">>) ->
                    "(assignee = \"" \o accountId \o "\" OR assignee WAS \""
                        \o accountId \o "\")"
              [] OTHER -> "assignee = \"" \o accountId \o "\""
    IN  At(SetLoc(r, "jql",
                  IF Truthy(additionalJql)
                  THEN baseJql \o " AND (" \o Text(additionalJql.s) \o ")"
                  ELSE baseJql),
           "searchAssigned")

\* fieldsToUpdate: the properties set so far
FieldsToUpdate(r) == IF "fieldsToUpdate" \in DOMAIN r.loc THEN r.loc.fieldsToUpdate ELSE <<>>

SetField(r, f, v) == SetLoc(r, "fieldsToUpdate", (f :> v) @@ FieldsToUpdate(r))

NoOpResult(issueKey) ==
    [success |-> TRUE,
     message |-> "No valid fields or status transition provided for issue "
                    \o Show(issueKey) \o ". No update performed."]

\* the no-op branch: handleUpdateIssue returns the message to the dispatcher
\* (index); in server.ts the `return` sits in the request handler itself
NoOpReturn(v, r) ==
    IF v = "index" THEN ReturnResult(r, NoOpResult(Get(r.args, "issueKey")))
    ELSE Finish(r, NoOpResult(Get(r.args, "issueKey")))

\* "Perform transition if found", else the final read
UpdateTransitionStep(r) ==
    IF Truthy(Loc(r, "transitionId")) THEN At(r, "doTransition") ELSE At(r, "updGetIssue")

\* a handler that reads the issue back when there is nothing to update
UpdateMutateAlwaysReads(v, r) ==
    IF DOMAIN FieldsToUpdate(r) # {} THEN At(r, "editIssue") ELSE UpdateTransitionStep(r)

\* a handler that performs the transition before the field update
UpdateTransitionFirst(v, r) ==
    IF Truthy(Loc(r, "transitionId")) THEN At(r, "doTransition")
    ELSE IF DOMAIN FieldsToUpdate(r) # {} THEN At(r, "editIssue")
    ELSE NoOpReturn(v, r)

\* a handler that starts the field update and goes on to the transition
\* without awaiting it
UpdateMutateWithoutAwait(v, r) ==
    IF DOMAIN FieldsToUpdate(r) # {} /\ Truthy(Loc(r, "transitionId"))
    THEN At(Log(r, "editIssue", "call", <<>>), "doTransition")
    ELSE IF DOMAIN FieldsToUpdate(r) # {} THEN At(r, "editIssue")
    ELSE IF ~Truthy(Loc(r, "transitionId")) THEN NoOpReturn(v, r)
    ELSE UpdateTransitionStep(r)

\* "Perform field updates first (if any)"
UpdateMutateStep(v, r) ==
    IF DOMAIN FieldsToUpdate(r) # {} THEN At(r, "editIssue")
    ELSE IF ~Truthy(Loc(r, "transitionId")) THEN NoOpReturn(v, r)
    ELSE UpdateTransitionStep(r)

\* "Status Change (Transition)"
UpdateStatusStep(v, r) ==
    IF Truthy(Get(r.args, "status")) THEN At(r, "getTransitions")
    ELSE UpdateMutateStep(v, r)

\* "Resolve Priority ID if name provided"
UpdatePriorityStep(v, r) ==
    IF Truthy(Get(r.args, "priority")) THEN At(r, "updGetPriorities")
    ELSE UpdateStatusStep(v, r)

\* the assignee of the field update: index sets { accountId } for a truthy
\* value; server.ts sets null or { name } for any value given
WithAssignee(v, r) ==
    LET assignee == Get(r.args, "assignee")
    IN  IF v = "index"
        THEN IF Truthy(assignee) THEN SetField(r, "assignee", [accountId |-> assignee]) ELSE r
        ELSE IF assignee = Undefined THEN r
        ELSE IF assignee = Str(<<"n", "u", "l", "l">>) THEN SetField(r, "assignee", [null |-> TRUE])
        ELSE SetField(r, "assignee", [name |-> assignee])

\* update_issue, up to its first remote call
UpdateIssueStart(v, r) ==
    LET summary == Get(r.args, "summary")
        description == Get(r.args, "description")
        r1 == IF Truthy(summary) THEN SetField(r, "summary", summary) ELSE r
        r2 == IF Truthy(description) THEN SetField(r1, "description", description) ELSE r1
    IN  UpdatePriorityStep(v, WithAssignee(v, r2))

\* "Find Component IDs (if provided)", else the payload is complete
CreateComponentsStep(r) ==
    LET components == Get(r.args, "components")
    IN  IF Truthy(components) /\ Len(components.a) > 0 /\ Truthy(Loc(r, "projectId"))
        THEN At(r, "getProjectComponents")
        ELSE At(r, "createIssue")

\* "Find Priority ID (if provided)"
CreatePriorityStep(r) ==
    IF Truthy(Get(r.args, "priority")) THEN At(r, "getPriorities")
    ELSE CreateComponentsStep(r)

\* a resolution that compares the names as they are written
ComponentObjectsCaseSensitive(names, projectComponents) ==
    LET hits(n) == {k \in DOMAIN projectComponents : projectComponents[k].name = n}
        first(n) == projectComponents[CHOOSE k \in hits(n) : \A j \in hits(n) : k <= j]
        Found(n) == hits(n) # {} /\ Truthy(first(n).id)
        found == SelectSeq(names, Found)
    IN  [k \in DOMAIN found |-> [id |-> first(found[k]).id]]

\* components.map(...).filter(comp => comp !== null)
RECURSIVE ComponentObjects(_, _)
ComponentObjects(names, projectComponents) ==
    IF names = <<>> THEN <<>>
    ELSE LET id == FindIdByName(projectComponents, "name", Head(names))
             rest == ComponentObjects(Tail(names), projectComponents)
         IN  IF Truthy(id) THEN << [id |-> id] >> \o rest ELSE rest

\* componentObjects: initialised to the empty array
ComponentObjectsOf(r) ==
    IF "componentObjects" \in DOMAIN r.loc THEN r.loc.componentObjects ELSE <<>>

\* a payload whose labels default to the empty list
OptionalFieldsWithDefaults(v, r) ==
    LET description == Get(r.args, "description")
        assignee == Get(r.args, "assignee")
        labels == Get(r.args, "labels")
        componentObjects == ComponentObjectsOf(r)
        priorityId == Loc(r, "priorityId")
        opt(c, f, x) == IF c THEN (f :> x) ELSE <<>>
    IN  opt(Truthy(description), "description", description)
        @@ opt(Truthy(assignee), "assignee",
               IF v = "index" THEN [accountId |-> assignee] ELSE [name |-> assignee])
        @@ ("labels" :> (IF Truthy(labels) THEN labels ELSE Arr(<<>>)))
        @@ opt(Len(componentObjects) > 0, "components", componentObjects)
        @@ opt(Truthy(priorityId), "priority", [id |-> priorityId])

\* the optional fields of the create payload
OptionalFields(v, r) ==
    LET description == Get(r.args, "description")
        assignee == Get(r.args, "assignee")
        labels == Get(r.args, "labels")
        componentObjects == ComponentObjectsOf(r)
        priorityId == Loc(r, "priorityId")
        opt(c, f, x) == IF c THEN (f :> x) ELSE <<>>
    IN  opt(Truthy(description), "description", description)
        @@ opt(Truthy(assignee), "assignee",
               IF v = "index" THEN [accountId |-> assignee] ELSE [name |-> assignee])
        @@ opt(Truthy(labels), "labels", labels)
        @@ opt(Len(componentObjects) > 0, "components", componentObjects)
        @@ opt(Truthy(priorityId), "priority", [id |-> priorityId])

\* "Construct fields object step-by-step"
CreateFields(v, r) ==
    ("project" :> [id |-> Loc(r, "projectId")])
    @@ ("summary" :> Get(r.args, "summary"))
    @@ ("issuetype" :> [id |-> Loc(r, "issueTypeId")])
    @@ OptionalFields(v, r)

\* the switch on the tool name, up to the first remote call
Dispatch(v, r) ==
    CASE r.name = "delete_issue" -> At(r, "deleteIssue")
      [] r.name = "get_issues" -> GetIssuesStart(r)
      [] r.name = "get_assigned_issues" -> GetAssignedIssuesStart(r)
      [] r.name = "update_issue" -> UpdateIssueStart(v, r)
      [] r.name = "list_fields" -> At(r, "getFields")
      [] r.name = "list_issue_types" -> At(r, "listIssueTypes")
      [] r.name = "list_link_types" -> At(r, "getIssueLinkTypes")
      [] r.name = "get_user" -> At(r, "findUsers")
      [] r.name = "create_issue" -> At(r, "getProject")
      [] r.name = "create_issue_link" -> At(r, "linkIssues")
      [] r.name = "get_issue" -> At(r, "getIssue")
      [] OTHER -> Catch(r, McpError("MethodNotFound",
                                    "Handler for tool \"" \o r.name \o "\" not implemented.",
                                    <<>>))

\* the arguments of the remote call issued at site r.pc
CallArg(v, r) ==
    LET issueKey == Get(r.args, "issueKey")
    IN  CASE r.pc \in {"deleteIssue", "getTransitions", "updGetIssue", "getIssue"} ->
                [issueIdOrKey |-> issueKey]
          [] r.pc \in {"searchIssues", "searchAssigned"} -> [jql |-> Loc(r, "jql")]
          [] r.pc \in {"getBoard", "getConfiguration"} -> [boardId |-> Loc(r, "boardId")]
          [] r.pc = "getFilter" -> [id |-> ToNumber(Loc(r, "filterId"))]
          [] r.pc = "editIssue" -> [issueIdOrKey |-> issueKey, fields |-> FieldsToUpdate(r)]
          [] r.pc = "doTransition" ->
                [issueIdOrKey |-> issueKey, transition |-> [id |-> Loc(r, "transitionId")]]
          [] r.pc = "findUsers" -> [query |-> Get(r.args, "email"), maxResults |-> 1]
          [] r.pc = "getProject" -> [projectIdOrKey |-> Get(r.args, "projectKey")]
          [] r.pc = "getProjectComponents" -> [projectIdOrKey |-> Loc(r, "projectId")]
          [] r.pc = "createIssue" -> [fields |-> CreateFields(v, r)]
          [] r.pc = "linkIssues" ->
                [type |-> [name |-> Get(r.args, "linkType")],
                 inwardIssue |-> [key |-> Get(r.args, "inwardIssueKey")],
                 outwardIssue |-> [key |-> Get(r.args, "outwardIssueKey")]]
          [] OTHER -> <<>>

CallSites ==
    {"deleteIssue", "getBoard", "getConfiguration", "getFilter", "searchIssues",
     "searchAssigned", "updGetPriorities", "getTransitions", "editIssue",
     "doTransition", "updGetIssue", "getFields", "listIssueTypes",
     "getIssueLinkTypes", "findUsers", "getProject", "getIssueAllTypes",
     "getPriorities", "getProjectComponents", "createIssue", "linkIssues", "getIssue"}

(***************************************************************************)
(* The handlers: what follows each remote call.                            *)
(***************************************************************************)
\* a read that is issued again whenever it fails
AfterReadRetrying(v, r, resp) ==
    IF resp.ok THEN ReturnResult(r, resp.v) ELSE At(r, r.pc)

\* `result = await <remote call>; break`
AfterRead(v, r, resp) ==
    IF resp.ok THEN ReturnResult(r, resp.v) ELSE Catch(r, resp.v)

AfterDeleteIssue(v, r, resp) ==
    IF resp.ok
    THEN ReturnResult(r, [success |-> TRUE,
                          message |-> "Issue " \o Show(Get(r.args, "issueKey"))
                                        \o " deleted successfully."])
    ELSE Catch(r, resp.v)

AfterLinkIssues(v, r, resp) ==
    IF resp.ok
    THEN ReturnResult(r, [success |-> TRUE,
                          message |-> "Link '" \o Show(Get(r.args, "linkType"))
                                        \o "' created between "
                                        \o Show(Get(r.args, "inwardIssueKey")) \o " and "
                                        \o Show(Get(r.args, "outwardIssueKey")) \o "."])
    ELSE Catch(r, resp.v)

AfterGetBoard(v, r, resp) ==
    IF resp.ok THEN At(r, "getConfiguration") ELSE Catch(r, resp.v)

\* a handler that asks for the filter without looking at config.filter?.id
AfterGetConfigurationWithoutCheck(v, r, resp) ==
    IF ~resp.ok THEN Catch(r, resp.v)
    ELSE At(SetLoc(r, "filterId", FilterIdOf(resp.v)), "getFilter")

AfterGetConfiguration(v, r, resp) ==
    IF ~resp.ok THEN Catch(r, resp.v)
    ELSE IF ~Truthy(FilterIdOf(resp.v))
    THEN Catch(r, McpError("InvalidParams",
                           "Board " \o Show(Loc(r, "boardId")) \o " has no filter configured",
                           <<>>))
    ELSE At(SetLoc(r, "filterId", FilterIdOf(resp.v)), "getFilter")

\* a handler that joins the board filter and the caller's jql without
\* parentheses
AfterGetFilterUnparenthesised(v, r, resp) ==
    LET jql == Get(r.args, "jql")
    IN  IF ~resp.ok THEN Catch(r, resp.v)
        ELSE IF ~Truthy(resp.v.jql) THEN Catch(r, McpError("InvalidParams", "no JQL", <<>>))
        ELSE At(SetLoc(r, "jql",
                       IF Truthy(jql) THEN Text(resp.v.jql.s) \o " AND " \o Text(jql.s)
                       ELSE Text(resp.v.jql.s)),
                "searchIssues")

AfterGetFilter(v, r, resp) ==
    LET jql == Get(r.args, "jql")
    IN  IF ~resp.ok THEN Catch(r, resp.v)
        ELSE IF ~Truthy(resp.v.jql)
        THEN Catch(r, McpError("InvalidParams",
                               "Filter " \o Show(Loc(r, "filterId")) \o " has no JQL configured",
                               <<>>))
        ELSE At(SetLoc(r, "jql",
                       IF Truthy(jql)
                       THEN Text(resp.v.jql.s) \o " AND (" \o Text(jql.s) \o ")"
                       ELSE Text(resp.v.jql.s)),
                "searchIssues")

AfterFindUsers(v, r, resp) ==
    LET email == Get(r.args, "email")
    IN  IF ~resp.ok THEN Catch(r, resp.v)
        ELSE IF Len(resp.v) > 0 /\ LowerOf(resp.v[1].emailAddress) = LowerOf(email)
        THEN ReturnResult(r, resp.v[1])
        ELSE Catch(r, McpError("InvalidRequest",
                               "User with email \"" \o Show(email) \o "\" not found.", <<>>))

\* update_issue: priority resolution is best effort
AfterUpdGetPriorities(v, r, resp) ==
    LET id == IF resp.ok THEN FindIdByName(resp.v, "name", Get(r.args, "priority"))
              ELSE Undefined
    IN  UpdateStatusStep(v, IF Truthy(id) THEN SetField(r, "priority", [id |-> id]) ELSE r)

\* a handler for which an unresolved transition is an error
AfterGetTransitionsOrFail(v, r, resp) ==
    LET list == IF resp.ok /\ "transitions" \in DOMAIN resp.v THEN resp.v.transitions ELSE <<>>
        id == FindIdByName(list, "toName", Get(r.args, "status"))
    IN  IF Truthy(id) THEN UpdateMutateStep(v, SetLoc(r, "transitionId", id))
        ELSE Catch(r, McpError("InvalidParams", "Transition not available.", <<>>))

\* update_issue: transition resolution is best effort
AfterGetTransitions(v, r, resp) ==
    LET list == IF resp.ok /\ "transitions" \in DOMAIN resp.v THEN resp.v.transitions ELSE <<>>
        id == FindIdByName(list, "toName", Get(r.args, "status"))
    IN  UpdateMutateStep(v, IF Truthy(id) THEN SetLoc(r, "transitionId", id) ELSE r)

\* a handler that goes on after a failed field update
AfterEditIssueIgnoringFailure(v, r, resp) == UpdateTransitionStep(r)

AfterEditIssue(v, r, resp) ==
    IF resp.ok THEN UpdateTransitionStep(r) ELSE Catch(r, resp.v)

\* a handler that returns right after the transition, without the final read
AfterDoTransitionWithoutRead(v, r, resp) ==
    IF resp.ok THEN ReturnResult(r, Undefined) ELSE Catch(r, resp.v)

\* a handler that reads the issue back whether the transition worked or not
AfterDoTransitionIgnoringFailure(v, r, resp) == At(r, "updGetIssue")

AfterDoTransition(v, r, resp) ==
    IF resp.ok THEN At(r, "updGetIssue") ELSE Catch(r, resp.v)

\* a handler that goes on without a project
AfterGetProjectLenient(v, r, resp) ==
    IF resp.ok /\ Truthy(resp.v.id)
    THEN At(SetLoc(r, "projectId", resp.v.id), "getIssueAllTypes")
    ELSE At(r, "getIssueAllTypes")

\* create_issue step 1: index wraps the lookup in its own try/catch and throws
\* McpErrors of its own; server.ts lets the upstream error through
AfterGetProject(v, r, resp) ==
    LET projectKey == Show(Get(r.args, "projectKey"))
    IN  IF v = "index"
        THEN IF ~resp.ok
             THEN Catch(r, McpError("InvalidParams",
                                    "Could not find project with key \"" \o projectKey \o "\".",
                                    <<>>))
             ELSE IF ~Truthy(resp.v.id)
             THEN Catch(r, McpError("InternalError",
                                    "Failed to resolve project ID for key \"" \o projectKey
                                        \o "\".", <<>>))
             ELSE At(SetLoc(r, "projectId", resp.v.id), "getIssueAllTypes")
        ELSE IF ~resp.ok THEN Catch(r, resp.v)
             ELSE IF ~Truthy(resp.v.id)
             THEN Catch(r, McpError("InvalidParams",
                                    "Could not find project with key \"" \o projectKey \o "\".",
                                    <<>>))
             ELSE At(SetLoc(r, "projectId", resp.v.id), "getIssueAllTypes")

\* create_issue step 2: in index every error of the step, its own McpError
\* included, is caught and re-thrown as an InternalError McpError
AfterGetIssueAllTypes(v, r, resp) ==
    LET issueType == Get(r.args, "issueType")
        id == IF resp.ok THEN FindIdByName(resp.v, "name", issueType) ELSE Undefined
        notFound ==
            McpError("InvalidParams",
                     "Issue type \"" \o Show(issueType) \o "\" not found"
                        \o (IF v = "index" THEN " or has no ID." ELSE "."), <<>>)
        inner == IF resp.ok THEN notFound ELSE resp.v
    IN  IF Truthy(id) THEN CreatePriorityStep(SetLoc(r, "issueTypeId", id))
        ELSE IF v = "index"
        THEN Catch(r, McpError("InternalError",
                               "Failed to resolve issue type ID for \"" \o Show(issueType)
                                    \o "\": " \o inner.message, <<>>))
        ELSE Catch(r, inner)

\* a handler for which an unresolved priority is an error
AfterGetPrioritiesOrFail(v, r, resp) ==
    LET id == IF resp.ok THEN FindIdByName(resp.v, "name", Get(r.args, "priority"))
              ELSE Undefined
    IN  IF Truthy(id) THEN CreateComponentsStep(SetLoc(r, "priorityId", id))
        ELSE Catch(r, McpError("InvalidParams", "Priority not found.", <<>>))

\* create_issue step 3: priority resolution is best effort
AfterGetPriorities(v, r, resp) ==
    LET id == IF resp.ok THEN FindIdByName(resp.v, "name", Get(r.args, "priority"))
              ELSE Undefined
    IN  CreateComponentsStep(IF Truthy(id) THEN SetLoc(r, "priorityId", id) ELSE r)

\* create_issue step 4: component resolution is best effort
AfterGetProjectComponents(v, r, resp) ==
    IF resp.ok
    THEN At(SetLoc(r, "componentObjects",
                   ComponentObjects(Get(r.args, "components").a, resp.v)),
            "createIssue")
    ELSE At(r, "createIssue")

\* a request handler that dispatches without looking the tool up
HandleCallToolWithoutLookup(v, r) ==
    IF r.name \in ToolNames(v)
       /\ ValidatorErrors(FindTool(v, r.name).inputSchema, r.hasArgs, r.args) # <<>>
    THEN Throw(r, McpError("InvalidParams", "Invalid arguments for tool " \o r.name, <<>>))
    ELSE Dispatch(v, r)

\* a request handler that dispatches without validating the arguments
HandleCallToolWithoutValidation(v, r) ==
    IF r.name \notin ToolNames(v)
    THEN Throw(r, McpError("MethodNotFound", "Tool \"" \o r.name \o "\" not found.", <<>>))
    ELSE Dispatch(v, r)

\* the request handler from its first line to the first remote call, or to
\* the error it throws before one
HandleCallTool(v, r) ==
    IF r.name \notin ToolNames(v)
    THEN Throw(r, McpError("MethodNotFound", "Tool \"" \o r.name \o "\" not found.", <<>>))
    ELSE LET errors == ValidatorErrors(FindTool(v, r.name).inputSchema, r.hasArgs, r.args)
         IN  IF errors # <<>>
             THEN Throw(r, McpError("InvalidParams",
                                    "Invalid arguments for tool " \o r.name \o ": "
                                        \o errorsText(errors), <<>>))
             ELSE Dispatch(v, r)

\* the request as the handler sees it: server.ts replaces a missing arguments
\* object by {}, index passes it on as undefined
Request(v, name, hasArgs, rawArgs) ==
    [Idle EXCEPT !.name = name,
                 !.hasArgs = (hasArgs \/ v = "server"),
                 !.args = IF hasArgs THEN rawArgs ELSE <<>>]

(***************************************************************************)
(* The state machine.                                                      *)
(***************************************************************************)
Settings == {"JIRA_HOST", "JIRA_EMAIL", "JIRA_API_TOKEN"}

Init ==
    /\ variant \in {"index", "server"}
    /\ env \in SUBSET Settings
    /\ phase = "starting"
    /\ inv = [i \in Slots |-> Idle]
    /\ deleted = {}
    /\ listed = NoOutcome
    /\ validatorErrors = [n \in ToolNames(variant) |-> <<>>]

\* a start that connects the transport without the configuration check
StartUnchecked ==
    /\ phase = "starting"
    /\ phase' = "running"
    /\ UNCHANGED <<variant, env, inv, deleted, listed, validatorErrors>>

\* process start: the configuration check, then server.connect(transport);
\* a missing setting ends the process (process.exit(1))
Start ==
    /\ phase = "starting"
    /\ phase' = IF Settings \subseteq env THEN "running" ELSE "exited"
    /\ UNCHANGED <<variant, env, inv, deleted, listed, validatorErrors>>

\* no request is being handled
NoneInFlight == listed = NoOutcome /\ \A j \in Slots : inv[j].pc = "idle"

\* the list_tools handler: async () => ({ tools })
ListToolsHandler(v) == [tools |-> tools(v)]

\* a list_tools request arrives; its handler has no suspension point
ListTools ==
    /\ phase = "running"
    /\ NoneInFlight
    /\ listed' = Returned(ListToolsHandler(variant))
    /\ UNCHANGED <<variant, env, phase, inv, deleted, validatorErrors>>

\* the SDK sends the tool list to the client
ListToolsRespond ==
    /\ listed # NoOutcome
    /\ listed' = NoOutcome
    /\ UNCHANGED <<variant, env, phase, inv, deleted, validatorErrors>>

\* a call_tool request arrives and the handler runs to its first remote call;
\* the errors field of the validator is written and read within this step and
\* is not followed here (CallToolShared follows it)
CallTool(i) ==
    /\ phase = "running"
    /\ inv[i].pc = "idle"
    /\ \A j \in Slots : j < i => inv[j].pc # "idle"
    /\ \E name \in RequestNames, hasArgs \in BOOLEAN :
         \E rawArgs \in (IF hasArgs THEN ArgObjects(name) ELSE {<<>>}) :
            inv' = [inv EXCEPT ![i] = HandleCallTool(variant, Request(variant, name, hasArgs, rawArgs))]
    /\ UNCHANGED <<variant, env, phase, deleted, listed, validatorErrors>>

\* the handler issues the remote call it stands at and awaits it
IssueCall(i) ==
    /\ inv[i].pc \in CallSites
    /\ ~inv[i].awaiting
    /\ inv' = [inv EXCEPT ![i] =
                  [Log(inv[i], OpOf(inv[i].pc), "call", CallArg(variant, inv[i]))
                      EXCEPT !.awaiting = TRUE]]
    /\ UNCHANGED <<variant, env, phase, deleted, listed, validatorErrors>>

\* the key of the issue the invocation is about
IssueKeyOf(r) == Show(Get(r.args, "issueKey"))

\* a remote call of slot i, issued at `site`, is pending
Awaits(i, site) == inv[i].pc = site /\ inv[i].awaiting

\* the handler of slot i once its pending call has settled: the trace keeps
\* how the call ended, `last` what it returned or threw
Answered(i, resp) ==
    [Log(inv[i], OpOf(inv[i].pc), IF resp.ok THEN "ok" ELSE "err", <<>>)
        EXCEPT !.last = Settled(OpOf(inv[i].pc), resp.ok, resp.v)]

\* One action per remote call site: the pending call resolves with one of
\* its answers or rejects with an upstream error, and the handler runs on to
\* its next remote call or to its end.
\* deleteIssue: Jira deletes an issue once; for a key already deleted the call
\* rejects with status 404
DeleteIssueReturns(i) ==
    /\ Awaits(i, "deleteIssue")
    /\ \E ok \in BOOLEAN :
         \E x \in (IF ok THEN Answers("deleteIssue") ELSE UpstreamErrors) :
            /\ IssueKeyOf(inv[i]) \in deleted => ~ok /\ x.status = 404
            /\ inv' = [inv EXCEPT ![i] =
                          AfterDeleteIssue(variant, Answered(i, [ok |-> ok, v |-> x]), [ok |-> ok, v |-> x])]
            /\ deleted' = IF ok THEN deleted \cup {IssueKeyOf(inv[i])} ELSE deleted
    /\ UNCHANGED <<variant, env, phase, listed, validatorErrors>>

GetBoardReturns(i) ==
    /\ Awaits(i, "getBoard")
    /\ \E ok \in BOOLEAN :
         \E x \in (IF ok THEN Answers("getBoard") ELSE UpstreamErrors) :
            inv' = [inv EXCEPT ![i] =
                       AfterGetBoard(variant, Answered(i, [ok |-> ok, v |-> x]), [ok |-> ok, v |-> x])]
    /\ UNCHANGED <<variant, env, phase, deleted, listed, validatorErrors>>

GetConfigurationReturns(i) ==
    /\ Awaits(i, "getConfiguration")
    /\ \E ok \in BOOLEAN :
         \E x \in (IF ok THEN Answers("getConfiguration") ELSE UpstreamErrors) :
            inv' = [inv EXCEPT ![i] =
                       AfterGetConfiguration(variant, Answered(i, [ok |-> ok, v |-> x]), [ok |-> ok, v |-> x])]
    /\ UNCHANGED <<variant, env, phase, deleted, listed, validatorErrors>>

GetFilterReturns(i) ==
    /\ Awaits(i, "getFilter")
    /\ \E ok \in BOOLEAN :
         \E x \in (IF ok THEN Answers("getFilter") ELSE UpstreamErrors) :
            inv' = [inv EXCEPT ![i] =
                       AfterGetFilter(variant, Answered(i, [ok |-> ok, v |-> x]), [ok |-> ok, v |-> x])]
    /\ UNCHANGED <<variant, env, phase, deleted, listed, validatorErrors>>

SearchIssuesReturns(i) ==
    /\ Awaits(i, "searchIssues")
    /\ \E ok \in BOOLEAN :
         \E x \in (IF ok THEN Answers("searchIssues") ELSE UpstreamErrors) :
            inv' = [inv EXCEPT ![i] =
                       AfterRead(variant, Answered(i, [ok |-> ok, v |-> x]), [ok |-> ok, v |-> x])]
    /\ UNCHANGED <<variant, env, phase, deleted, listed, validatorErrors>>

SearchAssignedReturns(i) ==
    /\ Awaits(i, "searchAssigned")
    /\ \E ok \in BOOLEAN :
         \E x \in (IF ok THEN Answers("searchAssigned") ELSE UpstreamErrors) :
            inv' = [inv EXCEPT ![i] =
                       AfterRead(variant, Answered(i, [ok |-> ok, v |-> x]), [ok |-> ok, v |-> x])]
    /\ UNCHANGED <<variant, env, phase, deleted, listed, validatorErrors>>

UpdGetPrioritiesReturns(i) ==
    /\ Awaits(i, "updGetPriorities")
    /\ \E ok \in BOOLEAN :
         \E x \in (IF ok THEN Answers("updGetPriorities") ELSE UpstreamErrors) :
            inv' = [inv EXCEPT ![i] =
                       AfterUpdGetPriorities(variant, Answered(i, [ok |-> ok, v |-> x]), [ok |-> ok, v |-> x])]
    /\ UNCHANGED <<variant, env, phase, deleted, listed, validatorErrors>>

GetTransitionsReturns(i) ==
    /\ Awaits(i, "getTransitions")
    /\ \E ok \in BOOLEAN :
         \E x \in (IF ok THEN Answers("getTransitions") ELSE UpstreamErrors) :
            inv' = [inv EXCEPT ![i] =
                       AfterGetTransitions(variant, Answered(i, [ok |-> ok, v |-> x]), [ok |-> ok, v |-> x])]
    /\ UNCHANGED <<variant, env, phase, deleted, listed, validatorErrors>>

EditIssueReturns(i) ==
    /\ Awaits(i, "editIssue")
    /\ \E ok \in BOOLEAN :
         \E x \in (IF ok THEN Answers("editIssue") ELSE UpstreamErrors) :
            inv' = [inv EXCEPT ![i] =
                       AfterEditIssue(variant, Answered(i, [ok |-> ok, v |-> x]), [ok |-> ok, v |-> x])]
    /\ UNCHANGED <<variant, env, phase, deleted, listed, validatorErrors>>

DoTransitionReturns(i) ==
    /\ Awaits(i, "doTransition")
    /\ \E ok \in BOOLEAN :
         \E x \in (IF ok THEN Answers("doTransition") ELSE UpstreamErrors) :
            inv' = [inv EXCEPT ![i] =
                       AfterDoTransition(variant, Answered(i, [ok |-> ok, v |-> x]), [ok |-> ok, v |-> x])]
    /\ UNCHANGED <<variant, env, phase, deleted, listed, validatorErrors>>

UpdGetIssueReturns(i) ==
    /\ Awaits(i, "updGetIssue")
    /\ \E ok \in BOOLEAN :
         \E x \in (IF ok THEN Answers("updGetIssue") ELSE UpstreamErrors) :
            inv' = [inv EXCEPT ![i] =
                       AfterRead(variant, Answered(i, [ok |-> ok, v |-> x]), [ok |-> ok, v |-> x])]
    /\ UNCHANGED <<variant, env, phase, deleted, listed, validatorErrors>>

GetFieldsReturns(i) ==
    /\ Awaits(i, "getFields")
    /\ \E ok \in BOOLEAN :
         \E x \in (IF ok THEN Answers("getFields") ELSE UpstreamErrors) :
            inv' = [inv EXCEPT ![i] =
                       AfterRead(variant, Answered(i, [ok |-> ok, v |-> x]), [ok |-> ok, v |-> x])]
    /\ UNCHANGED <<variant, env, phase, deleted, listed, validatorErrors>>

ListIssueTypesReturns(i) ==
    /\ Awaits(i, "listIssueTypes")
    /\ \E ok \in BOOLEAN :
         \E x \in (IF ok THEN Answers("listIssueTypes") ELSE UpstreamErrors) :
            inv' = [inv EXCEPT ![i] =
                       AfterRead(variant, Answered(i, [ok |-> ok, v |-> x]), [ok |-> ok, v |-> x])]
    /\ UNCHANGED <<variant, env, phase, deleted, listed, validatorErrors>>

GetIssueLinkTypesReturns(i) ==
    /\ Awaits(i, "getIssueLinkTypes")
    /\ \E ok \in BOOLEAN :
         \E x \in (IF ok THEN Answers("getIssueLinkTypes") ELSE UpstreamErrors) :
            inv' = [inv EXCEPT ![i] =
                       AfterRead(variant, Answered(i, [ok |-> ok, v |-> x]), [ok |-> ok, v |-> x])]
    /\ UNCHANGED <<variant, env, phase, deleted, listed, validatorErrors>>

FindUsersReturns(i) ==
    /\ Awaits(i, "findUsers")
    /\ \E ok \in BOOLEAN :
         \E x \in (IF ok THEN Answers("findUsers") ELSE UpstreamErrors) :
            inv' = [inv EXCEPT ![i] =
                       AfterFindUsers(variant, Answered(i, [ok |-> ok, v |-> x]), [ok |-> ok, v |-> x])]
    /\ UNCHANGED <<variant, env, phase, deleted, listed, validatorErrors>>

GetProjectReturns(i) ==
    /\ Awaits(i, "getProject")
    /\ \E ok \in BOOLEAN :
         \E x \in (IF ok THEN Answers("getProject") ELSE UpstreamErrors) :
            inv' = [inv EXCEPT ![i] =
                       AfterGetProject(variant, Answered(i, [ok |-> ok, v |-> x]), [ok |-> ok, v |-> x])]
    /\ UNCHANGED <<variant, env, phase, deleted, listed, validatorErrors>>

GetIssueAllTypesReturns(i) ==
    /\ Awaits(i, "getIssueAllTypes")
    /\ \E ok \in BOOLEAN :
         \E x \in (IF ok THEN Answers("getIssueAllTypes") ELSE UpstreamErrors) :
            inv' = [inv EXCEPT ![i] =
                       AfterGetIssueAllTypes(variant, Answered(i, [ok |-> ok, v |-> x]), [ok |-> ok, v |-> x])]
    /\ UNCHANGED <<variant, env, phase, deleted, listed, validatorErrors>>

GetPrioritiesReturns(i) ==
    /\ Awaits(i, "getPriorities")
    /\ \E ok \in BOOLEAN :
         \E x \in (IF ok THEN Answers("getPriorities") ELSE UpstreamErrors) :
            inv' = [inv EXCEPT ![i] =
                       AfterGetPriorities(variant, Answered(i, [ok |-> ok, v |-> x]), [ok |-> ok, v |-> x])]
    /\ UNCHANGED <<variant, env, phase, deleted, listed, validatorErrors>>

GetProjectComponentsReturns(i) ==
    /\ Awaits(i, "getProjectComponents")
    /\ \E ok \in BOOLEAN :
         \E x \in (IF ok THEN Answers("getProjectComponents") ELSE UpstreamErrors) :
            inv' = [inv EXCEPT ![i] =
                       AfterGetProjectComponents(variant, Answered(i, [ok |-> ok, v |-> x]), [ok |-> ok, v |-> x])]
    /\ UNCHANGED <<variant, env, phase, deleted, listed, validatorErrors>>

CreateIssueReturns(i) ==
    /\ Awaits(i, "createIssue")
    /\ \E ok \in BOOLEAN :
         \E x \in (IF ok THEN Answers("createIssue") ELSE UpstreamErrors) :
            inv' = [inv EXCEPT ![i] =
                       AfterRead(variant, Answered(i, [ok |-> ok, v |-> x]), [ok |-> ok, v |-> x])]
    /\ UNCHANGED <<variant, env, phase, deleted, listed, validatorErrors>>

LinkIssuesReturns(i) ==
    /\ Awaits(i, "linkIssues")
    /\ \E ok \in BOOLEAN :
         \E x \in (IF ok THEN Answers("linkIssues") ELSE UpstreamErrors) :
            inv' = [inv EXCEPT ![i] =
                       AfterLinkIssues(variant, Answered(i, [ok |-> ok, v |-> x]), [ok |-> ok, v |-> x])]
    /\ UNCHANGED <<variant, env, phase, deleted, listed, validatorErrors>>

GetIssueReturns(i) ==
    /\ Awaits(i, "getIssue")
    /\ \E ok \in BOOLEAN :
         \E x \in (IF ok THEN Answers("getIssue") ELSE UpstreamErrors) :
            inv' = [inv EXCEPT ![i] =
                       AfterRead(variant, Answered(i, [ok |-> ok, v |-> x]), [ok |-> ok, v |-> x])]
    /\ UNCHANGED <<variant, env, phase, deleted, listed, validatorErrors>>

\* the SDK sends the handler's result or error to the client; the slot is free
Respond(i) ==
    /\ inv[i].pc = "done"
    /\ inv' = [inv EXCEPT ![i] = Idle]
    /\ UNCHANGED <<variant, env, phase, deleted, listed, validatorErrors>>

\* a remote call of slot i resolves or rejects
RemoteReturns(i) ==
    \/ DeleteIssueReturns(i)
    \/ GetBoardReturns(i)
    \/ GetConfigurationReturns(i)
    \/ GetFilterReturns(i)
    \/ SearchIssuesReturns(i)
    \/ SearchAssignedReturns(i)
    \/ UpdGetPrioritiesReturns(i)
    \/ GetTransitionsReturns(i)
    \/ EditIssueReturns(i)
    \/ DoTransitionReturns(i)
    \/ UpdGetIssueReturns(i)
    \/ GetFieldsReturns(i)
    \/ ListIssueTypesReturns(i)
    \/ GetIssueLinkTypesReturns(i)
    \/ FindUsersReturns(i)
    \/ GetProjectReturns(i)
    \/ GetIssueAllTypesReturns(i)
    \/ GetPrioritiesReturns(i)
    \/ GetProjectComponentsReturns(i)
    \/ CreateIssueReturns(i)
    \/ LinkIssuesReturns(i)
    \/ GetIssueReturns(i)

\* the requests sent while other invocations are suspended: update_issue with
\* valid arguments, without an updatable field, and without issueKey
InterleavedRequests ==
    {[name |-> "update_issue", args |-> a] :
        a \in {("issueKey" :> Str(<<"K", "-", "1">>)) @@ ("summary" :> Str(<<"s">>))
                    @@ ("status" :> Str(<<"d", "O", "N", "E">>)),
               ("issueKey" :> Str(<<"K", "-", "1">>)),
               ("summary" :> Str(<<"s">>)) @@ ("status" :> Str(<<"X">>))}}

\* validator(args): the compiled validator of the tool stores the errors of
\* this run in its errors field (null, here <<>>, when args is valid)
RunValidator(v, r, fields) ==
    IF r.name \in DOMAIN fields
    THEN [fields EXCEPT ![r.name] =
              ValidatorErrors(FindTool(v, r.name).inputSchema, r.hasArgs, r.args)]
    ELSE fields

\* a handler that reads validator.errors as it was before its own validation
ValidatorErrorsReadStale(before, after, name) == before[name]

\* validator.errors as the handler reads it, right after validator(args)
ValidatorErrorsRead(before, after, name) == after[name]

\* the request handler with the validator's errors field spelled out: `before`
\* is the field of every validator when the request arrives, `after` when
\* validator(args) has run
HandleCallToolShared(v, r, before, after) ==
    IF r.name \notin ToolNames(v) THEN HandleCallTool(v, r)
    ELSE IF after[r.name] # <<>>
         THEN Throw(r, McpError("InvalidParams",
                                "Invalid arguments for tool " \o r.name \o ": "
                                    \o errorsText(ValidatorErrorsRead(before, after, r.name)),
                                <<>>))
         ELSE Dispatch(v, r)

\* a call_tool request arrives, other invocations being suspended at their
\* remote calls or not, and the handler runs to its first remote call
CallToolShared(i) ==
    /\ phase = "running"
    /\ listed = NoOutcome
    /\ inv[i].pc = "idle"
    /\ \E q \in InterleavedRequests :
         LET r == Request(variant, q.name, TRUE, q.args)
             after == RunValidator(variant, r, validatorErrors)
         IN  /\ validatorErrors' = after
             /\ inv' = [inv EXCEPT ![i] = HandleCallToolShared(variant, r, validatorErrors, after)]
    /\ UNCHANGED <<variant, env, phase, deleted, listed>>

\* the transport delivers a request when none is being handled
CallToolInTurn(i) ==
    /\ NoneInFlight
    /\ CallTool(i)

\* requests are handled one at a time
Next ==
    \/ Start
    \/ ListTools
    \/ ListToolsRespond
    \/ \E i \in Slots : CallToolInTurn(i)
    \/ \E i \in Slots : IssueCall(i)
    \/ \E i \in Slots : RemoteReturns(i)
    \/ \E i \in Slots : Respond(i)

Spec == Init /\ [][Next]_vars

\* requests arrive while earlier invocations wait for Jira
InterleavedNext ==
    \/ Start
    \/ \E i \in Slots : CallToolShared(i)
    \/ \E i \in Slots : IssueCall(i)
    \/ \E i \in Slots : GetTransitionsReturns(i)
    \/ \E i \in Slots : EditIssueReturns(i)
    \/ \E i \in Slots : DoTransitionReturns(i)
    \/ \E i \in Slots : UpdGetIssueReturns(i)
    \/ \E i \in Slots : Respond(i)

Interleaved == Init /\ [][InterleavedNext]_vars

(***************************************************************************)
(* Properties of one invocation.                                           *)
(***************************************************************************)
Received(r) == r.pc # "idle"

Completed(r) == r.pc = "done"

\* the positions in the trace where a remote call was issued
Calls(r) == {k \in DOMAIN r.trace : r.trace[k].ev = "call"}

CallsOf(r, op) == {k \in Calls(r) : r.trace[k].op = op}

ThrowsMcpError(r, code) ==
    /\ r.outcome.kind = "throw"
    /\ r.outcome.error.class = "McpError"
    /\ r.outcome.error.code = code

Succeeds(r) == r.outcome.kind = "return"

\* the arguments are rejected by the validator compiled from the tool's schema
FailsSchema(v, r) ==
    /\ r.name \in ToolNames(v)
    /\ ValidatorErrors(FindTool(v, r.name).inputSchema, r.hasArgs, r.args) # <<>>

\* lookup and validation passed: the invocation got into the try block
ReachedHandler(v, r) == r.name \in ToolNames(v) /\ ~FailsSchema(v, r)

\* C1: a call_tool request whose name is not in the registry fails with an
\* McpError of code MethodNotFound, whatever its arguments, and issues no
\* remote call.
UnknownToolIsMethodNotFound ==
    \A i \in Slots :
        Received(inv[i]) /\ inv[i].name \notin ToolNames(variant)
            => /\ Completed(inv[i])
               /\ ThrowsMcpError(inv[i], "MethodNotFound")
               /\ Calls(inv[i]) = {}

UnknownToolCalled ==
    \E i \in Slots :
        /\ Completed(inv[i])
        /\ inv[i].name \notin ToolNames(variant)
        /\ DOMAIN inv[i].args # {}
        /\ ThrowsMcpError(inv[i], "MethodNotFound")

\* C2: a call_tool request for a registered tool whose arguments fail the
\* tool's input schema fails with an McpError of code InvalidParams and issues
\* no remote call.
InvalidArgumentsAreInvalidParams ==
    \A i \in Slots :
        Received(inv[i]) /\ FailsSchema(variant, inv[i])
            => /\ Completed(inv[i])
               /\ ThrowsMcpError(inv[i], "InvalidParams")
               /\ Calls(inv[i]) = {}

InvalidArgumentsGiven ==
    \E i \in Slots :
        /\ Completed(inv[i])
        /\ FailsSchema(variant, inv[i])
        /\ DOMAIN inv[i].args # {}
        /\ ThrowsMcpError(inv[i], "InvalidParams")

\* the value is the success envelope around `result`
IsToolResultOf(value, result) ==
    /\ DOMAIN value = {"content"}
    /\ Len(value.content) = 1
    /\ value.content[1].type = "text"
    /\ value.content[1].text = JsonStringify(result)

\* C3: every invocation that completes without error returns the envelope
\* { content: [{ type: "text", text: <JSON of the handler's result> }] },
\* the update_issue path on which nothing is updated included.
SuccessIsEnveloped ==
    \A i \in Slots :
        Completed(inv[i]) /\ Succeeds(inv[i])
            => IsToolResultOf(inv[i].outcome.value, inv[i].result)

ErrorCodes == {"MethodNotFound", "InvalidParams", "InvalidRequest", "InternalError"}

\* C4: an invocation ends either with a ToolResult or with an McpError whose
\* code is MethodNotFound, InvalidParams, InvalidRequest or InternalError; an
\* error raised once lookup and validation have passed carries
\* data.originalError.
EndsWithToolResultOrMcpError ==
    \A i \in Slots :
        Completed(inv[i])
            => \/ /\ Succeeds(inv[i])
                  /\ IsToolResultOf(inv[i].outcome.value, inv[i].result)
               \/ /\ inv[i].outcome.kind = "throw"
                  /\ inv[i].outcome.error.class = "McpError"
                  /\ inv[i].outcome.error.code \in ErrorCodes
                  /\ ReachedHandler(variant, inv[i])
                        => "originalError" \in DOMAIN inv[i].outcome.error.data

\* the remote calls whose failure a handler swallows
BestEffortOps == {"getPriorities", "getTransitions", "getProjectComponents"}

\* the code the status of an upstream error stands for
CodeOfStatus(status) ==
    IF status = 400 THEN "InvalidParams"
    ELSE IF status \in {401, 403, 404} THEN "InvalidRequest"
    ELSE "InternalError"

\* C5: when a remote call that is not a best-effort lookup throws e, the
\* McpError raised to the client has the code e.status stands for (400 ->
\* InvalidParams, 401/403/404 -> InvalidRequest, anything else or none ->
\* InternalError) and the message "Jira API Error (<status>): <upstream
\* message>".
UpstreamStatusDeterminesCode ==
    \A i \in Slots :
        /\ Completed(inv[i])
        /\ ~inv[i].last.ok
        /\ inv[i].last.op \notin BestEffortOps
        => /\ ThrowsMcpError(inv[i], CodeOfStatus(inv[i].last.v.status))
           /\ inv[i].outcome.error.message =
                "Jira API Error (" \o ToString(StatusCodeOf(inv[i].last.v)) \o "): "
                    \o ErrorMessageOf(inv[i].last.v)

\* C6: get_issues with neither projectKey nor rapidView fails, as the client
\* sees it, with an McpError of code InvalidParams, and issues no remote call.
GetIssuesNeedsProjectOrBoard ==
    \A i \in Slots :
        /\ Received(inv[i])
        /\ inv[i].name = "get_issues"
        /\ "projectKey" \notin DOMAIN inv[i].args
        /\ "rapidView" \notin DOMAIN inv[i].args
        => /\ Completed(inv[i])
           /\ ThrowsMcpError(inv[i], "InvalidParams")
           /\ Calls(inv[i]) = {}

\* no entry of the list has the wanted name, compared case-insensitively
NoNameMatch(list, wanted) ==
    \A k \in DOMAIN list : LowerOf(list[k].name) # LowerOf(wanted)

\* the issue types have just been fetched and none has the requested name
IssueTypeUnmatched(r) ==
    /\ r.name = "create_issue"
    /\ r.last.op = "getIssueAllTypes"
    /\ r.last.ok
    /\ NoNameMatch(r.last.v, Get(r.args, "issueType"))

\* C7: create_issue whose issueType matches no issue-type name returned by the
\* remote API fails, as the client sees it, with an McpError of code
\* InvalidParams, and createIssue is never called.
UnknownIssueTypeIsInvalidParams ==
    \A i \in Slots :
        IssueTypeUnmatched(inv[i])
            => /\ Completed(inv[i])
               /\ ThrowsMcpError(inv[i], "InvalidParams")
               /\ CallsOf(inv[i], "createIssue") = {}

\* the priorities have just been fetched, or the fetch has just failed, and no
\* priority has the requested name
PriorityUnmatched(r) ==
    /\ r.name = "create_issue"
    /\ r.last.op = "getPriorities"
    /\ ~r.last.ok \/ NoNameMatch(r.last.v, Get(r.args, "priority"))

\* the priority lookup of create_issue is over and has set no priority id
PriorityUnresolved(r) ==
    /\ r.name = "create_issue"
    /\ \E k \in DOMAIN r.trace :
            r.trace[k].op = "getPriorities" /\ r.trace[k].ev \in {"ok", "err"}
    /\ "priorityId" \notin DOMAIN r.loc

\* C8: create_issue with a priority name that matches no remote priority, or
\* whose priority lookup fails, goes on: createIssue is called exactly once,
\* with a payload that has no priority field, and the invocation succeeds
\* with what createIssue returns.
UnresolvedPriorityIsLeftOut ==
    \A i \in Slots :
        /\ PriorityUnmatched(inv[i])
            => /\ PriorityUnresolved(inv[i])
               /\ inv[i].pc \in {"getProjectComponents", "createIssue"}
        /\ PriorityUnresolved(inv[i])
            => /\ Cardinality(CallsOf(inv[i], "createIssue")) <= 1
               /\ \A k \in CallsOf(inv[i], "createIssue") :
                        "priority" \notin DOMAIN inv[i].trace[k].arg.fields
               /\ Completed(inv[i])
                    => /\ Cardinality(CallsOf(inv[i], "createIssue")) = 1
                       /\ inv[i].last.op = "createIssue"
                       /\ inv[i].last.ok
                            => inv[i].outcome = Returned(ToolResult(inv[i].last.v))

CreatedWithoutPriority ==
    \E i \in Slots :
        /\ Completed(inv[i])
        /\ PriorityUnresolved(inv[i])
        /\ Get(inv[i].args, "priority") = Str(<<"X">>)
        /\ Succeeds(inv[i])
        /\ CallsOf(inv[i], "createIssue") # {}

\* update_issue got into its handler and ended with no field to update and no
\* transition resolved
NothingToUpdate(r) ==
    /\ r.name = "update_issue"
    /\ ReachedHandler(variant, r)
    /\ Completed(r)
    /\ DOMAIN FieldsToUpdate(r) = {}
    /\ ~Truthy(Loc(r, "transitionId"))

\* the value carries the "No update performed" message, enveloped or not
CarriesNoUpdateMessage(value, issueKey) ==
    \/ value = NoOpResult(issueKey)
    \/ IsToolResultOf(value, NoOpResult(issueKey))

\* C9: update_issue whose field-update set ends up empty and for which no
\* transition is resolved returns a success response carrying a "No update
\* performed" message and calls none of editIssue, doTransition, getIssue.
NothingToUpdateIsNoOp ==
    \A i \in Slots :
        NothingToUpdate(inv[i])
            => /\ Succeeds(inv[i])
               /\ CarriesNoUpdateMessage(inv[i].outcome.value, Get(inv[i].args, "issueKey"))
               /\ CallsOf(inv[i], "editIssue") = {}
               /\ CallsOf(inv[i], "doTransition") = {}
               /\ CallsOf(inv[i], "getIssue") = {}

NoOpAfterUnmatchedStatus ==
    \E i \in Slots :
        /\ NothingToUpdate(inv[i])
        /\ Truthy(Get(inv[i].args, "status"))
        /\ inv[i].last.op = "getTransitions"
        /\ Succeeds(inv[i])

\* C10: in an update_issue invocation with a non-empty field-update set and a
\* resolved transition, editIssue is called and resolves before doTransition
\* is called; doTransition is never called before or without it.
EditBeforeTransition ==
    \A i \in Slots :
        /\ inv[i].name = "update_issue"
        /\ DOMAIN FieldsToUpdate(inv[i]) # {}
        /\ Truthy(Loc(inv[i], "transitionId"))
        => /\ \A k \in CallsOf(inv[i], "doTransition") :
                \E j \in 1..(k - 1) :
                    /\ inv[i].trace[j].op = "editIssue" /\ inv[i].trace[j].ev = "ok"
                    /\ \E h \in 1..(j - 1) :
                            inv[i].trace[h].op = "editIssue" /\ inv[i].trace[h].ev = "call"
           /\ inv[i].pc \in {"doTransition", "updGetIssue", "done"}
                => CallsOf(inv[i], "editIssue") # {}

EditedThenTransitioned ==
    \E i \in Slots :
        /\ inv[i].name = "update_issue"
        /\ DOMAIN FieldsToUpdate(inv[i]) # {}
        /\ CallsOf(inv[i], "doTransition") # {}
        /\ Completed(inv[i])
        /\ Succeeds(inv[i])

\* the positions in the trace where a mutation of the issue was issued
Mutations(r) == CallsOf(r, "editIssue") \cup CallsOf(r, "doTransition")

\* the call issued at position k of the trace has resolved before position g
ResolvedBefore(r, k, g) ==
    \E j \in (k + 1)..(g - 1) : r.trace[j].op = r.trace[k].op /\ r.trace[j].ev = "ok"

\* C11: an update_issue invocation that does not fail ends either with the
\* no-op message, no mutation having been issued, or with the issue returned
\* by a single getIssue read issued after every mutation of the invocation
\* has completed; getIssue is never issued before a mutation.
UpdateEndsWithNoOpOrRead ==
    \A i \in Slots :
        inv[i].name = "update_issue" /\ ReachedHandler(variant, inv[i])
            => /\ \A g \in CallsOf(inv[i], "getIssue") :
                    /\ Mutations(inv[i]) # {}
                    /\ \A m \in Mutations(inv[i]) : m < g /\ ResolvedBefore(inv[i], m, g)
               /\ Completed(inv[i]) /\ Succeeds(inv[i])
                    => \/ /\ Mutations(inv[i]) = {}
                          /\ CallsOf(inv[i], "getIssue") = {}
                          /\ CarriesNoUpdateMessage(inv[i].outcome.value,
                                                    Get(inv[i].args, "issueKey"))
                       \/ /\ Mutations(inv[i]) # {}
                          /\ Cardinality(CallsOf(inv[i], "getIssue")) = 1
                          /\ inv[i].last = Settled("getIssue", TRUE, inv[i].last.v)
                          /\ inv[i].outcome = Returned(ToolResult(inv[i].last.v))

TransitionedThenRead ==
    \E i \in Slots :
        /\ inv[i].name = "update_issue"
        /\ Completed(inv[i]) /\ Succeeds(inv[i])
        /\ CallsOf(inv[i], "editIssue") = {}
        /\ CallsOf(inv[i], "doTransition") # {}
        /\ CallsOf(inv[i], "getIssue") # {}

\* the searches issued so far
Searches(r) == CallsOf(r, "searchForIssuesUsingJql")

\* the invocation has just called the search of call site `site`
SearchIssued(r, site) == r.pc = site /\ r.awaiting

\* the query of the latest remote call
LatestQuery(r) == r.trace[Len(r.trace)].arg.jql

\* the JQL of the board filter, when the filter has just been fetched
BoardFilterJql(r) == IF r.last.op = "getFilter" THEN Show(r.last.v.jql) ELSE ""

\* the query of get_issues: rapidView selects the board filter's JQL F,
\* otherwise the project; withJql says whether a jql J is combined with it
IssuesQuery(args, F, withJql) ==
    LET K == Show(Get(args, "projectKey"))
        J == Show(Get(args, "jql"))
    IN  IF "rapidView" \in DOMAIN args
        THEN IF withJql THEN F \o " AND (" \o J \o ")" ELSE F
        ELSE IF withJql THEN "project = \"" \o K \o "\" AND " \o J
             ELSE "project = \"" \o K \o "\""

\* C12 as stated: get_issues issues exactly one search; its query is
\* project = "K" with projectKey K and no jql, project = "K" AND J with jql J
\* given, the board filter's JQL F with rapidView and no jql, F AND (J) with
\* rapidView and jql J given.
GetIssuesQueryAsStated ==
    \A i \in Slots :
        inv[i].name = "get_issues" /\ SearchIssued(inv[i], "searchIssues")
            => /\ Cardinality(Searches(inv[i])) = 1
               /\ LatestQuery(inv[i]) =
                    IssuesQuery(inv[i].args, BoardFilterJql(inv[i]), "jql" \in DOMAIN inv[i].args)

\* C12, amended: as stated, with "jql J given" read as "a non-empty jql J
\* given": an empty jql is treated as no jql.  get_issues never issues more
\* than one search and issues exactly one when it succeeds.
GetIssuesQuery ==
    \A i \in Slots :
        inv[i].name = "get_issues"
            => /\ Cardinality(Searches(inv[i])) <= 1
               /\ Completed(inv[i]) /\ Succeeds(inv[i]) => Cardinality(Searches(inv[i])) = 1
               /\ SearchIssued(inv[i], "searchIssues")
                    => LatestQuery(inv[i]) =
                         IssuesQuery(inv[i].args, BoardFilterJql(inv[i]),
                                     Truthy(Get(inv[i].args, "jql")))

BoardSearchWithJql ==
    \E i \in Slots :
        /\ inv[i].name = "get_issues"
        /\ SearchIssued(inv[i], "searchIssues")
        /\ "rapidView" \in DOMAIN inv[i].args
        /\ LatestQuery(inv[i]) = "F AND (J)"

\* the query of get_assigned_issues; withExtra says whether additionalJql is
\* combined with the assignee clause
AssignedQuery(args, withExtra) ==
    LET A == Show(Get(args, "accountId"))
        status == Get(args, "status")
        B == IF status = Str(<<"p", "a", "s", "t">>) THEN "assignee WAS \"" \o A \o "\""
             ELSE IF status = Str(<<"a", "l", "l">>)
             THEN "(assignee = \"" \o A \o "\" OR assignee WAS \"" \o A \o "\")"
             ELSE "assignee = \"" \o A \o "\""
    IN  IF withExtra THEN B \o " AND (" \o Show(Get(args, "additionalJql")) \o ")" ELSE B

DeleteTwiceIsNotFound ==
    \A i \in Slots :
        inv[i].name = "delete_issue" /\ Completed(inv[i]) /\ ReachedHandler(variant, inv[i])
            => /\ inv[i].last.ok
                    => /\ IssueKeyOf(inv[i]) \in deleted
                       /\ inv[i].outcome =
                            Returned(ToolResult(
                                [success |-> TRUE,
                                 message |-> "Issue " \o IssueKeyOf(inv[i])
                                                \o " deleted successfully."]))
               /\ ~inv[i].last.ok /\ IssueKeyOf(inv[i]) \in deleted
                    => /\ ThrowsMcpError(inv[i], "InvalidRequest")
                       /\ inv[i].outcome.error.message =
                            "Jira API Error (404): " \o ErrorMessageOf(inv[i].last.v)

DeletedTwice ==
    \E i \in Slots :
        /\ inv[i].name = "delete_issue"
        /\ Completed(inv[i])
        /\ ~inv[i].last.ok
        /\ IssueKeyOf(inv[i]) \in deleted
        /\ ThrowsMcpError(inv[i], "InvalidRequest")

\* position k of the trace records that the call `op` resolved
ResolvedAt(r, k, op) == r.trace[k].op = op /\ r.trace[k].ev = "ok"

\* the project has just been looked up and the lookup failed: the call
\* rejected or the project has no id
ProjectLookupFailed(r) ==
    /\ r.name = "create_issue"
    /\ r.last.op = "getProject"
    /\ ~r.last.ok \/ ~Truthy(r.last.v.id)

\* C15: in a create_issue invocation createIssue is called at most once, is
\* the last remote call, and is called only after the project lookup and then
\* the issue-type match have succeeded; when the project lookup fails the
\* invocation fails without any further remote call.
CreateIssueIsLastAndGuarded ==
    \A i \in Slots :
        inv[i].name = "create_issue"
            => /\ Cardinality(CallsOf(inv[i], "createIssue")) <= 1
               /\ \A c \in CallsOf(inv[i], "createIssue") :
                    /\ \A k \in Calls(inv[i]) : k <= c
                    /\ \E p \in 1..(c - 1), t \in 1..(c - 1) :
                            /\ p < t
                            /\ ResolvedAt(inv[i], p, "getProject")
                            /\ ResolvedAt(inv[i], t, "getIssueAllTypes")
               /\ inv[i].last.op = "getIssueAllTypes" /\ ~Completed(inv[i])
                    => inv[i].last.ok /\ ~NoNameMatch(inv[i].last.v, Get(inv[i].args, "issueType"))
               /\ ProjectLookupFailed(inv[i])
                    => /\ Completed(inv[i])
                       /\ inv[i].outcome.kind = "throw"
                       /\ Cardinality(Calls(inv[i])) = 1

CreatedAfterAllLookups ==
    \E i \in Slots :
        /\ inv[i].name = "create_issue"
        /\ Completed(inv[i]) /\ Succeeds(inv[i])
        /\ Cardinality(Calls(inv[i])) = 5
        /\ CallsOf(inv[i], "createIssue") # {}

\* the entry of the list that a requested name selects: the first one
\* whose name equals it case-insensitively
FirstNamed(list, wanted) ==
    LET same == {k \in DOMAIN list : LowerOf(list[k].name) = LowerOf(wanted)}
    IN  list[CHOOSE k \in same : \A j \in same : k <= j]

\* the ids, in request order, of the requested names that select a component
\* with an id
MatchedComponents(names, list) ==
    LET Matched(n) == ~NoNameMatch(list, n) /\ Truthy(FirstNamed(list, n).id)
        matched == SelectSeq(names, Matched)
    IN  [k \in DOMAIN matched |-> [id |-> FirstNamed(list, matched[k]).id]]

\* createIssue has just been called
CreateIssued(r) == r.name = "create_issue" /\ r.pc = "createIssue" /\ r.awaiting

\* the payload of the latest remote call
LatestFields(r) == r.trace[Len(r.trace)].arg.fields

\* C16: in create_issue with a non-empty components list the components of the
\* createIssue payload are the ids of the requested names that equal,
\* case-insensitively, the name of a component of the project, in request
\* order; unmatched names are dropped, and when none matches or the lookup
\* throws the payload has no components field and createIssue is still called.
ComponentsAreMatchedIds ==
    \A i \in Slots :
        /\ inv[i].name = "create_issue" /\ inv[i].last.op = "getProjectComponents"
            => inv[i].pc = "createIssue"
        /\ CreateIssued(inv[i]) /\ Len(Get(inv[i].args, "components").a) > 0
            => /\ inv[i].last.op = "getProjectComponents"
               /\ LET expected == IF inv[i].last.ok
                                  THEN MatchedComponents(Get(inv[i].args, "components").a,
                                                         inv[i].last.v)
                                  ELSE <<>>
                  IN  IF expected = <<>>
                      THEN "components" \notin DOMAIN LatestFields(inv[i])
                      ELSE /\ "components" \in DOMAIN LatestFields(inv[i])
                           /\ LatestFields(inv[i]).components = expected

SomeComponentsDropped ==
    \E i \in Slots :
        /\ CreateIssued(inv[i])
        /\ inv[i].last.op = "getProjectComponents"
        /\ "components" \in DOMAIN LatestFields(inv[i])
        /\ Len(LatestFields(inv[i]).components) = 1
        /\ Len(Get(inv[i].args, "components").a) = 3

OptionalFieldNames == {"description", "assignee", "labels", "components", "priority"}

\* C17: the createIssue payload always has the project id, the summary and
\* the issue-type id; description, assignee, labels, components and priority
\* appear only if the argument was provided, priority and components only if
\* their resolution produced an id.
PayloadHasOnlyProvidedFields ==
    \A i \in Slots :
        /\ inv[i].name = "create_issue" /\ ~Completed(inv[i]) /\ inv[i].last.ok
            => /\ inv[i].last.op = "getProject"
                    => Truthy(inv[i].last.v.id) /\ Loc(inv[i], "projectId") = inv[i].last.v.id
               /\ inv[i].last.op = "getIssueAllTypes"
                    => /\ Truthy(Loc(inv[i], "issueTypeId"))
                       /\ Loc(inv[i], "issueTypeId") =
                            FirstNamed(inv[i].last.v, Get(inv[i].args, "issueType")).id
        /\ CreateIssued(inv[i])
            => LET fields == LatestFields(inv[i])
                   args == inv[i].args
               IN  /\ DOMAIN fields \subseteq {"project", "summary", "issuetype"} \cup OptionalFieldNames
                   /\ {"project", "summary", "issuetype"} \subseteq DOMAIN fields
                   /\ fields.project = [id |-> Loc(inv[i], "projectId")]
                   /\ fields.summary = args.summary
                   /\ fields.issuetype = [id |-> Loc(inv[i], "issueTypeId")]
                   /\ Truthy(fields.project.id) /\ Truthy(fields.issuetype.id)
                   /\ \A f \in OptionalFieldNames : f \in DOMAIN fields => f \in DOMAIN args
                   /\ "description" \in DOMAIN fields => fields.description = args.description
                   /\ "labels" \in DOMAIN fields => fields.labels = args.labels
                   /\ "priority" \in DOMAIN fields
                        => DOMAIN fields.priority = {"id"} /\ Truthy(fields.priority.id)
                   /\ "components" \in DOMAIN fields
                        => /\ Len(fields.components) > 0
                           /\ \A k \in DOMAIN fields.components :
                                Truthy(fields.components[k].id)

FullPayload ==
    \E i \in Slots :
        /\ CreateIssued(inv[i])
        /\ DOMAIN LatestFields(inv[i]) = {"project", "summary", "issuetype"} \cup OptionalFieldNames

\* the search returned a candidate whose email is the requested one
FirstCandidateMatches(users, email) ==
    Len(users) > 0 /\ LowerOf(users[1].emailAddress) = LowerOf(email)

\* C18: get_user returns the user record exactly when the remote search
\* returns at least one candidate and the first candidate's email equals the
\* requested email case-insensitively; otherwise the call fails, as the
\* client sees it, with an McpError of code InvalidRequest.
GetUserFoundOrInvalidRequest ==
    \A i \in Slots :
        /\ inv[i].name = "get_user"
        /\ inv[i].last.op = "findUsers"
        /\ inv[i].last.ok
        => /\ Completed(inv[i])
           /\ IF FirstCandidateMatches(inv[i].last.v, Get(inv[i].args, "email"))
              THEN inv[i].outcome = Returned(ToolResult(inv[i].last.v[1]))
              ELSE ThrowsMcpError(inv[i], "InvalidRequest")

\* C19: within one invocation no remote operation is called twice, and once a
\* remote call other than a best-effort lookup (priority, components,
\* transitions) has failed no further remote call is issued and the
\* invocation ends in an error.
NoRetryAndFailFast ==
    \A i \in Slots :
        /\ \A k \in Calls(inv[i]), j \in Calls(inv[i]) :
                k # j => inv[i].trace[k].op # inv[i].trace[j].op
        /\ \A k \in DOMAIN inv[i].trace :
                inv[i].trace[k].ev = "err" /\ inv[i].trace[k].op \notin BestEffortOps
                    => /\ k = Len(inv[i].trace)
                       /\ Completed(inv[i])
                       /\ inv[i].outcome.kind = "throw"

EditFailedBeforeTransition ==
    \E i \in Slots :
        /\ Completed(inv[i])
        /\ ~inv[i].last.ok
        /\ inv[i].last.op = "editIssue"
        /\ Truthy(Loc(inv[i], "transitionId"))
        /\ inv[i].outcome.kind = "throw"

\* no transition of the answer leads to the wanted status
NoStatusMatch(answer, wanted) ==
    \/ "transitions" \notin DOMAIN answer
    \/ \A k \in DOMAIN answer.transitions :
            LowerOf(answer.transitions[k].toName) # LowerOf(wanted)

\* the step update_issue goes to once its lookups are over
UpdateGoesOn(r) ==
    /\ r.outcome.kind # "throw"
    /\ r.pc = IF DOMAIN FieldsToUpdate(r) # {} THEN "editIssue" ELSE "done"

\* C20: in update_issue a failing best-effort lookup never fails the
\* invocation: when the priority lookup throws or finds no name match,
\* priority is left out of the field-update set; when the transitions lookup
\* throws or no transition leads to the requested status, doTransition is not
\* called; in both cases the remaining steps proceed.
UpdateLookupsAreBestEffort ==
    \A i \in Slots :
        inv[i].name = "update_issue"
            => /\ /\ inv[i].last.op = "getPriorities"
                  /\ ~inv[i].last.ok \/ NoNameMatch(inv[i].last.v, Get(inv[i].args, "priority"))
                  => /\ "priority" \notin DOMAIN FieldsToUpdate(inv[i])
                     /\ IF Truthy(Get(inv[i].args, "status"))
                        THEN inv[i].pc = "getTransitions"
                        ELSE UpdateGoesOn(inv[i])
               /\ /\ inv[i].last.op = "getTransitions"
                  /\ ~inv[i].last.ok \/ NoStatusMatch(inv[i].last.v, Get(inv[i].args, "status"))
                  => /\ ~Truthy(Loc(inv[i], "transitionId"))
                     /\ UpdateGoesOn(inv[i])
               /\ \A k \in CallsOf(inv[i], "editIssue") :
                    inv[i].trace[k].arg.fields = FieldsToUpdate(inv[i])
               /\ CallsOf(inv[i], "doTransition") # {} => Truthy(Loc(inv[i], "transitionId"))

UpdatedDespiteFailedLookups ==
    \E i \in Slots :
        /\ inv[i].name = "update_issue"
        /\ Completed(inv[i]) /\ Succeeds(inv[i])
        /\ \E k \in DOMAIN inv[i].trace :
                inv[i].trace[k].op = "getPriorities" /\ inv[i].trace[k].ev = "err"
        /\ \E k \in DOMAIN inv[i].trace :
                inv[i].trace[k].op = "getTransitions" /\ inv[i].trace[k].ev = "err"
        /\ CallsOf(inv[i], "editIssue") # {}
        /\ CallsOf(inv[i], "getIssue") # {}

(***************************************************************************)
(* The tool registry as list_tools shows it.                               *)
(***************************************************************************)
\* the names of the tools in the pending list_tools response, in its order
ListedNames == [k \in DOMAIN listed.value.tools |-> listed.value.tools[k].name]

\* the tools of the catalogue other than get_assigned_issues and get_issue
OtherCataloguedTools ==
    {"delete_issue", "get_issues", "update_issue", "list_fields",
     "list_issue_types", "list_link_types", "get_user", "create_issue",
     "create_issue_link"}

\* C21: whatever list_tools and call_tool invocations came before, list_tools
\* returns the declared tools in declaration order, their names are pairwise
\* distinct, and get_assigned_issues and get_issue are among them alongside
\* the other catalogued tools.
RegistryIsFixedAndComplete ==
    listed # NoOutcome
        => /\ listed.value.tools = tools(variant)
           /\ \A a \in DOMAIN ListedNames, b \in DOMAIN ListedNames :
                  a # b => ListedNames[a] # ListedNames[b]
           /\ OtherCataloguedTools \subseteq {ListedNames[k] : k \in DOMAIN ListedNames}
           /\ {"get_assigned_issues", "get_issue"}
                  \subseteq {ListedNames[k] : k \in DOMAIN ListedNames}

(***************************************************************************)
(* What the update_issue schema lets through.                              *)
(***************************************************************************)
UpdatableFields == {"summary", "description", "assignee", "status", "priority"}

\* C22: an argument object that passes the validation of update_issue has,
\* besides issueKey, at least one of summary, description, assignee, status,
\* priority.
ValidUpdateNamesAField ==
    \A i \in Slots :
        /\ Received(inv[i])
        /\ inv[i].name = "update_issue"
        /\ ~FailsSchema(variant, inv[i])
        => /\ "issueKey" \in DOMAIN inv[i].args
           /\ DOMAIN inv[i].args \cap UpdatableFields # {}

(***************************************************************************)
(* Startup.                                                                *)
(***************************************************************************)
\* C23: with one of JIRA_HOST, JIRA_EMAIL, JIRA_API_TOKEN missing the process
\* ends at startup: the transport is never connected, no call_tool or
\* list_tools request is ever served, and so no tool call ever reports the
\* missing setting.
MissingSettingIsFatalAtStartup ==
    ~(Settings \subseteq env)
        => /\ phase \in {"starting", "exited"}
           /\ listed = NoOutcome
           /\ \A i \in Slots : ~Received(inv[i]) /\ inv[i].outcome = NoOutcome

ExitedForMissingSetting == ~(Settings \subseteq env) /\ phase = "exited"

(***************************************************************************)
(* Termination.                                                            *)
(***************************************************************************)
\* how far each invocation has come: the number of its remote-call events
progress == [i \in Slots |-> Len(inv[i].trace)]

\* C24: provided every remote call settles, every call_tool invocation
\* completes with a result or an error, having issued at most 5 remote calls;
\* an invocation that has not completed stands at a remote call.  Stated as
\* what makes it so: an invocation that has not completed can always take a
\* step (issue its call, or continue when the call settles), every step of it
\* adds one event, and it has at most 5 calls and their 5 settlements.
InvocationsComplete ==
    /\ [](\A i \in Slots :
            Received(inv[i]) =>
                /\ Cardinality(Calls(inv[i])) <= 5
                /\ Len(inv[i].trace) <= 2 * 5
                /\ Completed(inv[i]) => inv[i].outcome.kind \in {"return", "throw"}
                /\ ~Completed(inv[i]) =>
                        /\ inv[i].pc \in CallSites
                        /\ ~inv[i].awaiting => ENABLED IssueCall(i)
                        /\ inv[i].awaiting => ENABLED RemoteReturns(i))
    /\ [][\A i \in Slots :
            Received(inv[i]) /\ ~Completed(inv[i])
                => Len(inv'[i].trace) = Len(inv[i].trace) + 1]_progress

CompletedAfterFiveCalls ==
    \E i \in Slots :
        Completed(inv[i]) /\ Cardinality(Calls(inv[i])) = 5

(***************************************************************************)
(* Invocations that interleave at their remote calls.                      *)
(***************************************************************************)
\* the remote calls of the invocation that were issued and have not settled
InFlight(r) ==
    {k \in Calls(r) : \A j \in DOMAIN r.trace : j > k => r.trace[j].ev = "call"}

MutatingOps == {"editIssue", "doTransition"}

\* C25: an invocation has at most one remote call in flight, whatever other
\* invocations do meanwhile: a call is issued only when the one before it has
\* settled, so editIssue and doTransition of one invocation are never
\* outstanding together.
OneCallInFlight ==
    \A i \in Slots :
        /\ Cardinality(InFlight(inv[i])) <= 1
        /\ inv[i].awaiting <=> InFlight(inv[i]) # {}
        /\ \A k \in Calls(inv[i]) : k > 1 => inv[i].trace[k - 1].ev \in {"ok", "err"}
        /\ Cardinality({k \in InFlight(inv[i]) : inv[i].trace[k].op \in MutatingOps}) <= 1

\* one invocation waits for its doTransition, its editIssue settled, while
\* the other waits for its editIssue
TransitionAndEditInterleaved ==
    \E i \in Slots, j \in Slots :
        /\ i # j
        /\ Awaits(i, "doTransition")
        /\ CallsOf(inv[i], "editIssue") # {}
        /\ Awaits(j, "editIssue")

(***************************************************************************)
(* McpErrors thrown inside the try block.                                  *)
(***************************************************************************)
\* get_issues got past validation with a rapidView that is no positive integer
InvalidRapidView(v, r) ==
    LET rapidView == Get(r.args, "rapidView")
        boardId == IF rapidView.t = "string" THEN ParseInt(rapidView.s) ELSE rapidView
    IN  /\ r.name = "get_issues"
        /\ ReachedHandler(v, r)
        /\ Truthy(rapidView)
        /\ ~IsInteger(boardId) \/ boardId.n <= 0

\* get_issues got past validation with neither rapidView nor projectKey
NeitherBoardNorProject(v, r) ==
    /\ r.name = "get_issues"
    /\ ReachedHandler(v, r)
    /\ ~Truthy(Get(r.args, "rapidView"))
    /\ ~Truthy(Get(r.args, "projectKey"))

BoardWithoutFilter(r) ==
    r.last.op = "getConfiguration" /\ r.last.ok /\ ~Truthy(FilterIdOf(r.last.v))

FilterWithoutJql(r) ==
    r.last.op = "getFilter" /\ r.last.ok /\ ~Truthy(r.last.v.jql)

UserNotFound(r) ==
    /\ r.name = "get_user"
    /\ r.last.op = "findUsers"
    /\ r.last.ok
    /\ ~FirstCandidateMatches(r.last.v, Get(r.args, "email"))

\* create_issue: getProject answered without an id, or, in the class build,
\* failed
ProjectUnresolved(v, r) ==
    /\ r.name = "create_issue"
    /\ r.last.op = "getProject"
    /\ IF r.last.ok THEN ~Truthy(r.last.v.id) ELSE v = "index"

\* create_issue: no issue type of the answer matches with an id, or, in the
\* class build, getIssueAllTypes failed
IssueTypeUnresolved(v, r) ==
    /\ r.name = "create_issue"
    /\ r.last.op = "getIssueAllTypes"
    /\ IF r.last.ok
       THEN \A k \in DOMAIN r.last.v :
                (\A j \in 1..(k - 1) :
                    LowerOf(r.last.v[j].name) # LowerOf(Get(r.args, "issueType")))
                /\ LowerOf(r.last.v[k].name) = LowerOf(Get(r.args, "issueType"))
                => ~Truthy(r.last.v[k].id)
       ELSE v = "index"

\* the handler throws an McpError of its own inside the try block
ThrowsInsideHandler(v, r) ==
    \/ InvalidRapidView(v, r)
    \/ NeitherBoardNorProject(v, r)
    \/ BoardWithoutFilter(r)
    \/ FilterWithoutJql(r)
    \/ UserNotFound(r)
    \/ ProjectUnresolved(v, r)
    \/ IssueTypeUnresolved(v, r)

CallsAfter(r, k) == {j \in Calls(r) : j > k}

\* C27: update_issue with fields to update and a resolved transition: when
\* editIssue succeeds and doTransition fails, the invocation ends in an error
\* with the field update applied (Jira accepted it, and the only call after
\* it is the doTransition that failed: nothing undoes it) and without the
\* final getIssue; when editIssue fails, neither doTransition nor getIssue is
\* issued.
PartialUpdateIsLeftAsIs ==
    \A i \in Slots :
        inv[i].name = "update_issue" =>
            /\ (inv[i].last.op = "doTransition" /\ ~inv[i].last.ok
                    /\ CallsOf(inv[i], "editIssue") # {})
                => /\ Completed(inv[i])
                   /\ inv[i].outcome.kind = "throw"
                   /\ \A k \in CallsOf(inv[i], "editIssue") :
                        /\ inv[i].trace[k + 1].ev = "ok"
                        /\ \A j \in CallsAfter(inv[i], k) :
                                inv[i].trace[j].op = "doTransition"
                   /\ Cardinality(CallsOf(inv[i], "editIssue")) = 1
                   /\ Cardinality(CallsOf(inv[i], "doTransition")) = 1
                   /\ CallsOf(inv[i], "getIssue") = {}
            /\ (inv[i].last.op = "editIssue" /\ ~inv[i].last.ok)
                => /\ Completed(inv[i])
                   /\ inv[i].outcome.kind = "throw"
                   /\ CallsOf(inv[i], "doTransition") = {}
                   /\ CallsOf(inv[i], "getIssue") = {}
                   /\ \A k \in CallsOf(inv[i], "editIssue") : CallsAfter(inv[i], k) = {}

EditedThenTransitionFailed ==
    \E i \in Slots :
        /\ inv[i].name = "update_issue"
        /\ Completed(inv[i])
        /\ inv[i].last.op = "doTransition"
        /\ ~inv[i].last.ok
        /\ CallsOf(inv[i], "editIssue") # {}

(***************************************************************************)
(* get_issues by rapid view.                                               *)
(***************************************************************************)
\* the two queries of the projectKey path
ProjectQueries(args) ==
    {"project = \"" \o Show(Get(args, "projectKey")) \o "\"",
     "project = \"" \o Show(Get(args, "projectKey")) \o "\" AND " \o Show(Get(args, "jql"))}

\* the two queries of the rapidView path, for the board filter's JQL F
BoardQueries(args, F) == {F, F \o " AND (" \o Show(Get(args, "jql")) \o ")"}

\* C28: get_issues with both rapidView and projectKey takes the rapidView
\* path: it starts with getBoard and its search query is made of the board
\* filter's JQL (and the caller's jql), without the project; a search by
\* project is issued only when rapidView is absent or falsy.
RapidViewWinsOverProject ==
    \A i \in Slots :
        inv[i].name = "get_issues" =>
            /\ ("rapidView" \in DOMAIN inv[i].args /\ "projectKey" \in DOMAIN inv[i].args)
                => /\ Calls(inv[i]) # {} => inv[i].trace[1].op = "getBoard"
                   /\ SearchIssued(inv[i], "searchIssues")
                        => /\ inv[i].last.op = "getFilter"
                           /\ LatestQuery(inv[i])
                                \in BoardQueries(inv[i].args, BoardFilterJql(inv[i]))
                           /\ LatestQuery(inv[i]) \notin ProjectQueries(inv[i].args)
            /\ (SearchIssued(inv[i], "searchIssues")
                    /\ LatestQuery(inv[i]) \in ProjectQueries(inv[i].args))
                => /\ ~Truthy(Get(inv[i].args, "rapidView"))
                   /\ CallsOf(inv[i], "getBoard") = {}

\* a board search for a request that also names a project
BoardSearchedDespiteProject ==
    \E i \in Slots :
        /\ inv[i].name = "get_issues"
        /\ "rapidView" \in DOMAIN inv[i].args
        /\ Truthy(Get(inv[i].args, "projectKey"))
        /\ SearchIssued(inv[i], "searchIssues")

\* the remote calls of the rapidView path, in the order of the code
BoardPath == <<"getBoard", "getConfiguration", "getFilter", "searchForIssuesUsingJql">>

\* the methods called by the invocation so far, in the order of the calls
CallOrder(r) ==
    LET RECURSIVE From(_)
        From(k) ==
            IF k > Len(r.trace) THEN <<>>
            ELSE IF r.trace[k].ev = "call" THEN <<r.trace[k].op>> \o From(k + 1)
            ELSE From(k + 1)
    IN  From(1)

\* C29: get_issues with a rapidView calls getBoard, getConfiguration,
\* getFilter and the search in this order, each after the one before it
\* succeeded; it makes no remote call when rapidView is not a positive
\* integer, and no search when the board configuration has no filter id or
\* the filter has no JQL.
BoardPathInOrder ==
    \A i \in Slots :
        (inv[i].name = "get_issues" /\ "rapidView" \in DOMAIN inv[i].args) =>
            /\ Len(CallOrder(inv[i])) <= Len(BoardPath)
            /\ CallOrder(inv[i]) = SubSeq(BoardPath, 1, Len(CallOrder(inv[i])))
            /\ \A k \in Calls(inv[i]) :
                    k > 1 => /\ inv[i].trace[k - 1].ev = "ok"
                             /\ inv[i].trace[k - 2].ev = "call"
            /\ InvalidRapidView(variant, inv[i])
                    => Completed(inv[i]) /\ Calls(inv[i]) = {}
            /\ BoardWithoutFilter(inv[i])
                    => /\ Completed(inv[i])
                       /\ CallOrder(inv[i]) = SubSeq(BoardPath, 1, 2)
            /\ FilterWithoutJql(inv[i])
                    => /\ Completed(inv[i])
                       /\ CallOrder(inv[i]) = SubSeq(BoardPath, 1, 3)
            /\ Searches(inv[i]) # {}
                    => /\ ~InvalidRapidView(variant, inv[i])
                       /\ CallOrder(inv[i]) = BoardPath

\* a board search that went through all four calls and succeeded
BoardPathCompleted ==
    \E i \in Slots :
        /\ inv[i].name = "get_issues"
        /\ Completed(inv[i])
        /\ Succeeds(inv[i])
        /\ CallOrder(inv[i]) = BoardPath

(***************************************************************************)
(* The validators shared by interleaved invocations.                       *)
(***************************************************************************)
\* what the validator of the invocation's tool finds wrong with its arguments
OwnErrors(v, r) == ValidatorErrors(FindTool(v, r.name).inputSchema, r.hasArgs, r.args)

\* C30: with invocations interleaving at their remote calls, an invocation
\* whose arguments are invalid ends, before any remote call, with an
\* InvalidParams error whose message is the validator's errors for its own
\* arguments, whatever the shared errors field held before; an invocation
\* with valid arguments never ends with a validation error; and the arrival
\* of a request leaves every other invocation as it was.
ValidationDescribesOwnArguments ==
    /\ [](\A i \in Slots :
            (Received(inv[i]) /\ inv[i].name \in ToolNames(variant)) =>
                IF OwnErrors(variant, inv[i]) # <<>>
                THEN /\ Completed(inv[i])
                     /\ Calls(inv[i]) = {}
                     /\ ThrowsMcpError(inv[i], "InvalidParams")
                     /\ inv[i].outcome.error.message =
                            "Invalid arguments for tool " \o inv[i].name \o ": "
                                \o errorsText(OwnErrors(variant, inv[i]))
                ELSE (Completed(inv[i]) /\ inv[i].outcome.kind = "throw")
                        => inv[i].outcome.error.data # <<>>)
    /\ [][\A i \in Slots, j \in Slots :
            (i # j /\ ~Received(inv[i]) /\ Received(inv'[i])) => inv'[j] = inv[j]]_vars

\* an invocation was rejected by the validator, whose errors field holds its
\* errors, while another invocation waits for editIssue
RejectedWhileOtherWaits ==
    \E i \in Slots, j \in Slots :
        /\ i # j
        /\ Awaits(j, "editIssue")
        /\ Completed(inv[i])
        /\ ThrowsMcpError(inv[i], "InvalidParams")
        /\ validatorErrors[inv[i].name] = OwnErrors(variant, inv[i])
        /\ validatorErrors[inv[i].name] # <<>>
====
